---- MODULE Spec2Model ----
(***************************************************************************)
(* A model of the malloc package of this repository: the explicit free    *)
(* list (mm-explicit.c), the segregated-fit free lists                     *)
(* (mm-segregated-fit.c) and the segregated buddy system                   *)
(* (mm-segregated-buddy.c), over a byte-addressed heap arena.              *)
(*                                                                         *)
(* Memory is a sparse map from word addresses (multiples of 4) to 32-bit   *)
(* little-endian words; a word that was never written is indeterminate     *)
(* and reads as four `fill` bytes, a value drawn once in Init.  Pointers   *)
(* are one word wide (the package is built with -m32: GET_PRED, GET_SUCC   *)
(* and GET_ROOT load and store a pointer in a WSIZE slot).  Every byte the *)
(* model stores or draws is below 128, so that every word is below 2^31    *)
(* and unsigned 32-bit arithmetic on it is exact in the integers TLC has.  *)
(***************************************************************************)
EXTENDS Integers, Naturals, Sequences, FiniteSets, TLC

VARIABLES variant, fill, phase, heap, live, last, calls, budget, halves,
          issued

vars == <<variant, fill, phase, heap, live, last, calls, budget, halves,
          issued>>

(*********************** bounds of the model *******************************)
\* Size of the arena the backend owns (MAX_HEAP of memlib), in bytes.
MAX_HEAP == 17408
\* The largest number of allocations the caller holds at one time.
MaxLive == 3
\* The number of calls of mm_malloc, mm_free and mm_realloc in a run.
MaxCalls == 4

(*********************** program constants *********************************)
NULL == 0
ALIGNMENT == 8
WSIZE == 4
DSIZE == 8
CHUNKSIZE == 4096
SEGREGATED_LIST_SIZE == 20

\* The three free-list allocators.  The naive allocator of mm.c is the
\* variant "naive", which only SpecNaive runs.
Variants == {"explicit", "segfit", "buddy"}
\* What a never-written byte of the arena may hold.
FillBytes == {0, 85}
\* Request sizes the caller draws from.
Sizes == {0, 1, 3000, 5000}

TwoTo30 == 1073741824

(*********************** the heap backend (memlib) *************************)
\* First byte of the arena; 8-byte aligned, as mem_init's malloc returns it.
mem_heap == 65536
mem_max_addr == mem_heap + MAX_HEAP

\* A word access at p stays inside the arena.
InArena(p) == p >= mem_heap /\ p + WSIZE <= mem_max_addr

\* A value no program state gives: the result of an access outside the
\* arena that the model does not expect (TLC stops on it).
Undefined == CHOOSE x \in {} : TRUE

\* mem_sbrk: move the break forward by incr bytes, or refuse.  The field
\* refused counts the refusals; it is the backend's, not part of the heap.
mem_sbrk(h, incr) ==
    IF h.mem_brk + incr > mem_max_addr
    THEN [h |-> [h EXCEPT !.refused = @ + 1], r |-> -1]
    ELSE [h |-> [h EXCEPT !.mem_brk = @ + incr], r |-> h.mem_brk]

(*********************** words and macros **********************************)
Pow256(i) == CASE i = 0 -> 1 [] i = 1 -> 256 [] i = 2 -> 65536 [] OTHER -> 16777216

\* The word of four fill bytes.
FillWord == fill * 16843009

\* GET(p): the word at p.  Every word access of the package is 4-byte
\* aligned; another one has no value in the model.
GET(h, p) ==
    IF p \in DOMAIN h.mem THEN h.mem[p]
    ELSE IF p >= mem_heap /\ p + WSIZE <= mem_max_addr /\ p % WSIZE = 0 THEN FillWord
    ELSE Undefined

\* PUT(p, val): store the word val at p.
PUT(h, p, val) ==
    IF ~InArena(p) \/ p % WSIZE # 0 THEN Undefined
    ELSE [h EXCEPT !.mem =
            [a \in (DOMAIN h.mem) \cup {p} |-> IF a = p THEN val ELSE h.mem[a]]]

\* Byte i (0 = lowest address) of the word w, and w with byte i set to b.
ByteOf(w, i) == (w \div Pow256(i)) % 256
SetByte(w, i, b) == w + (b - ByteOf(w, i)) * Pow256(i)

\* The byte at address a, and the heap with byte b stored at a.
ByteAt(h, a) == ByteOf(GET(h, a - (a % WSIZE)), a % WSIZE)
StoreByte(h, a, b) ==
    PUT(h, a - (a % WSIZE), SetByte(GET(h, a - (a % WSIZE)), a % WSIZE, b))

ALIGN(size) == ((size + (ALIGNMENT - 1)) \div 8) * 8

MAX(x, y) == IF x > y THEN x ELSE y

\* PACK(size, alloc): size | alloc, for alloc in {0, 1}.
PACK(size, alloc) == IF size % 2 = 1 THEN size ELSE size + alloc

GET_SIZE(h, p) == LET w == GET(h, p) IN w - (w % 8)
GET_ALLOC(h, p) == GET(h, p) % 2
HDRP(bp) == bp - WSIZE
FTRP(h, bp) == bp + GET_SIZE(h, HDRP(bp)) - DSIZE
NEXT_BLKP(h, bp) == bp + GET_SIZE(h, bp - WSIZE)
PREV_BLKP(h, bp) == bp - GET_SIZE(h, bp - DSIZE)
GET_PRED(h, bp) == GET(h, bp)
GET_SUCC(h, bp) == GET(h, bp + WSIZE)

\* LET v == x IN In(v), with x evaluated once however often In uses v.
Let(x, In(_)) == In(x)

\* (x - y) >= z in unsigned 32-bit arithmetic, for z > 0: the difference
\* wraps to a number above 2^31 when x < y.
USubGe(x, y, z) == x < y \/ x - y >= z

\* memcpy(dst, src, n), for word-aligned dst and src.  The first n \div 4
\* words are copied whole and the last n % 4 bytes into the low bytes of
\* the next word.  A destination word whose source word is indeterminate,
\* or lies in the destination range (the ranges overlap, which memcpy
\* leaves undefined), becomes indeterminate.
memcpy(h, dst, src, n) ==
    LET whole == WSIZE * (n \div WSIZE)
        k     == n % WSIZE
        pd    == dst + whole
        ps    == src + whole
        InDst(a) == a >= dst /\ a < dst + n
    IN
    Let({a \in DOMAIN h.mem : ~(a >= dst /\ a < dst + whole)}, LAMBDA keep :
    Let({a \in DOMAIN h.mem : a >= src /\ a < src + whole /\ ~InDst(a)},
        LAMBDA from :
    Let({a + (dst - src) : a \in from}, LAMBDA to :
    Let([a \in keep \cup to |->
            IF a \in to THEN h.mem[a - (dst - src)] ELSE h.mem[a]], LAMBDA m1 :
    IF k = 0 THEN [h EXCEPT !.mem = m1]
    ELSE IF InDst(ps)
    THEN [h EXCEPT !.mem = [a \in (DOMAIN m1) \ {pd} |-> m1[a]]]
    ELSE [h EXCEPT !.mem =
            [a \in (DOMAIN m1) \cup {pd} |->
                IF a = pd
                THEN (GET(h, ps) % Pow256(k))
                     + (GET(h, pd) \div Pow256(k)) * Pow256(k)
                ELSE m1[a]]]))))

(*********************** mm-explicit.c *************************************)
\* The heap record: mem (words), mem_brk (the break), listp (free_listp of
\* mm-explicit.c, heap_listp of the segregated files), fault ("none", or
\* what stopped the process), refused (the backend's count of refusals).
remove_free_block_explicit(h, bp) ==
    IF bp = h.listp
    THEN [h EXCEPT !.listp = GET_SUCC(h, bp)]
    ELSE Let(PUT(h, GET_PRED(h, bp) + WSIZE, GET_SUCC(h, bp)), LAMBDA h1 :
         IF GET_SUCC(h1, bp) # NULL
         THEN PUT(h1, GET_SUCC(h1, bp), GET_PRED(h1, bp))
         ELSE h1)

add_free_block_explicit(h, bp) ==
    Let(PUT(h, bp, NULL), LAMBDA h1 :
    Let(PUT(h1, bp + WSIZE, h1.listp), LAMBDA h2 :
    Let(IF h2.listp # NULL THEN PUT(h2, h2.listp, bp) ELSE h2, LAMBDA h3 :
    [h3 EXCEPT !.listp = bp])))

coalesce_explicit(h, bp) ==
    LET prev_alloc == GET_ALLOC(h, FTRP(h, PREV_BLKP(h, bp)))
        next_alloc == GET_ALLOC(h, HDRP(NEXT_BLKP(h, bp)))
        size       == GET_SIZE(h, HDRP(bp))
    IN IF prev_alloc = 1 /\ next_alloc = 1
       THEN [h |-> add_free_block_explicit(h, bp), r |-> bp]
       ELSE IF prev_alloc = 1 /\ next_alloc = 0
       THEN Let(remove_free_block_explicit(h, NEXT_BLKP(h, bp)), LAMBDA h1 :
            Let(size + GET_SIZE(h1, HDRP(NEXT_BLKP(h1, bp))), LAMBDA s1 :
            Let(PUT(h1, HDRP(bp), PACK(s1, 0)), LAMBDA h2 :
            Let(PUT(h2, FTRP(h2, bp), PACK(s1, 0)), LAMBDA h3 :
            [h |-> add_free_block_explicit(h3, bp), r |-> bp]))))
       ELSE IF prev_alloc = 0 /\ next_alloc = 1
       THEN Let(remove_free_block_explicit(h, PREV_BLKP(h, bp)), LAMBDA h1 :
            Let(size + GET_SIZE(h1, HDRP(PREV_BLKP(h1, bp))), LAMBDA s1 :
            Let(PUT(h1, FTRP(h1, bp), PACK(s1, 0)), LAMBDA h2 :
            Let(PUT(h2, HDRP(PREV_BLKP(h2, bp)), PACK(s1, 0)), LAMBDA h3 :
            Let(PREV_BLKP(h3, bp), LAMBDA b1 :
            [h |-> add_free_block_explicit(h3, b1), r |-> b1])))))
       ELSE Let(remove_free_block_explicit(h, PREV_BLKP(h, bp)), LAMBDA h1 :
            Let(remove_free_block_explicit(h1, NEXT_BLKP(h1, bp)), LAMBDA h2 :
            Let(size + GET_SIZE(h2, HDRP(PREV_BLKP(h2, bp)))
                     + GET_SIZE(h2, FTRP(h2, NEXT_BLKP(h2, bp))), LAMBDA s1 :
            Let(PUT(h2, HDRP(PREV_BLKP(h2, bp)), PACK(s1, 0)), LAMBDA h3 :
            Let(PUT(h3, FTRP(h3, NEXT_BLKP(h3, bp)), PACK(s1, 0)), LAMBDA h4 :
            Let(PREV_BLKP(h4, bp), LAMBDA b1 :
            [h |-> add_free_block_explicit(h4, b1), r |-> b1]))))))

\* extend_heap that stamps the new header over the epilogue before it
\* looks at what mem_sbrk returned: the fault C8 detects.
extend_heap_explicit_early(h, words) ==
    LET size == IF words % 2 = 1 THEN (words + 1) * WSIZE ELSE words * WSIZE
    IN Let(mem_sbrk(h, size), LAMBDA s :
       Let(PUT(s.h, h.mem_brk - WSIZE, PACK(size, 0)), LAMBDA h1 :
       IF s.r = -1
       THEN [h |-> h1, r |-> NULL]
       ELSE Let(PUT(h1, FTRP(h1, s.r), PACK(size, 0)), LAMBDA h2 :
            Let(PUT(h2, HDRP(NEXT_BLKP(h2, s.r)), PACK(0, 1)), LAMBDA h3 :
            coalesce_explicit(h3, s.r)))))

extend_heap_explicit(h, words) ==
    LET size == IF words % 2 = 1 THEN (words + 1) * WSIZE ELSE words * WSIZE
    IN Let(mem_sbrk(h, size), LAMBDA s :
       IF s.r = -1
       THEN [h |-> s.h, r |-> NULL]
       ELSE Let(PUT(s.h, HDRP(s.r), PACK(size, 0)), LAMBDA h1 :
            Let(PUT(h1, FTRP(h1, s.r), PACK(size, 0)), LAMBDA h2 :
            Let(PUT(h2, HDRP(NEXT_BLKP(h2, s.r)), PACK(0, 1)), LAMBDA h3 :
            coalesce_explicit(h3, s.r)))))

\* mm_init without the alignment padding word: the fault C10 detects.
mm_init_explicit_unpadded(h) ==
    Let(mem_sbrk(h, 7 * WSIZE), LAMBDA s :
    IF s.r = -1
    THEN [h |-> [h EXCEPT !.listp = -1], r |-> -1]
    ELSE Let(PUT(s.h, s.r, PACK(DSIZE, 1)), LAMBDA h2 :
         Let(PUT(h2, s.r + (1 * WSIZE), PACK(DSIZE, 1)), LAMBDA h3 :
         Let(PUT(h3, s.r + (2 * WSIZE), PACK(4 * WSIZE, 0)), LAMBDA h4 :
         Let(PUT(h4, s.r + (3 * WSIZE), NULL), LAMBDA h5 :
         Let(PUT(h5, s.r + (4 * WSIZE), NULL), LAMBDA h6 :
         Let(PUT(h6, s.r + (5 * WSIZE), PACK(4 * WSIZE, 0)), LAMBDA h7 :
         Let(PUT(h7, s.r + (6 * WSIZE), PACK(0, 1)), LAMBDA h8 :
         Let([h8 EXCEPT !.listp = s.r + (3 * WSIZE)], LAMBDA h9 :
         Let(extend_heap_explicit(h9, CHUNKSIZE \div WSIZE), LAMBDA e :
         IF e.r = NULL THEN [h |-> e.h, r |-> -1]
         ELSE [h |-> e.h, r |-> 0]))))))))))

mm_init_explicit(h) ==
    Let(mem_sbrk(h, 8 * WSIZE), LAMBDA s :
    IF s.r = -1
    THEN [h |-> [h EXCEPT !.listp = -1], r |-> -1]
    ELSE Let(PUT(s.h, s.r, 0), LAMBDA h1 :
         Let(PUT(h1, s.r + (1 * WSIZE), PACK(DSIZE, 1)), LAMBDA h2 :
         Let(PUT(h2, s.r + (2 * WSIZE), PACK(DSIZE, 1)), LAMBDA h3 :
         Let(PUT(h3, s.r + (3 * WSIZE), PACK(4 * WSIZE, 0)), LAMBDA h4 :
         Let(PUT(h4, s.r + (4 * WSIZE), NULL), LAMBDA h5 :
         Let(PUT(h5, s.r + (5 * WSIZE), NULL), LAMBDA h6 :
         Let(PUT(h6, s.r + (6 * WSIZE), PACK(4 * WSIZE, 0)), LAMBDA h7 :
         Let(PUT(h7, s.r + (7 * WSIZE), PACK(0, 1)), LAMBDA h8 :
         Let([h8 EXCEPT !.listp = s.r + (4 * WSIZE)], LAMBDA h9 :
         Let(extend_heap_explicit(h9, CHUNKSIZE \div WSIZE), LAMBDA e :
         IF e.r = NULL THEN [h |-> e.h, r |-> -1]
         ELSE [h |-> e.h, r |-> 0])))))))))))

\* place that never splits: the fault C11 detects.
place_explicit_whole(h, bp, allocate_size) ==
    Let(remove_free_block_explicit(h, bp), LAMBDA h1 :
    Let(GET_SIZE(h1, HDRP(bp)), LAMBDA chunk_size :
    Let(PUT(h1, HDRP(bp), PACK(chunk_size, 1)), LAMBDA h2 :
    PUT(h2, FTRP(h2, bp), PACK(chunk_size, 1)))))

place_explicit(h, bp, allocate_size) ==
    Let(remove_free_block_explicit(h, bp), LAMBDA h1 :
    Let(GET_SIZE(h1, HDRP(bp)), LAMBDA chunk_size :
    IF USubGe(chunk_size, allocate_size, 2 * DSIZE)
    THEN Let(PUT(h1, HDRP(bp), PACK(allocate_size, 1)), LAMBDA h2 :
         Let(PUT(h2, FTRP(h2, bp), PACK(allocate_size, 1)), LAMBDA h3 :
         Let(NEXT_BLKP(h3, bp), LAMBDA nb :
         Let(PUT(h3, HDRP(nb), PACK(chunk_size - allocate_size, 0)), LAMBDA h4 :
         Let(PUT(h4, FTRP(h4, nb), PACK(chunk_size - allocate_size, 0)),
             LAMBDA h5 :
         add_free_block_explicit(h5, nb))))))
    ELSE Let(PUT(h1, HDRP(bp), PACK(chunk_size, 1)), LAMBDA h2 :
         PUT(h2, FTRP(h2, bp), PACK(chunk_size, 1)))))

\* The for loop of find_fit (BEST_FIT), from bp on.
RECURSIVE find_fit_loop_explicit(_, _, _, _, _)
find_fit_loop_explicit(h, bp, asize, best_bp, min_size) ==
    IF bp = NULL THEN best_bp
    ELSE Let(GET_SIZE(h, HDRP(bp)), LAMBDA sz :
         IF asize <= sz /\ (min_size = 0 \/ sz < min_size)
         THEN find_fit_loop_explicit(h, GET_SUCC(h, bp), asize, bp, sz)
         ELSE find_fit_loop_explicit(h, GET_SUCC(h, bp), asize, best_bp, min_size))

\* find_fit that takes the head of the list whenever it fits: the fault C26
\* detects.
find_fit_explicit_head(h, asize) ==
    IF h.listp # NULL /\ asize <= GET_SIZE(h, HDRP(h.listp)) THEN h.listp
    ELSE find_fit_loop_explicit(h, h.listp, asize, NULL, 0)

find_fit_explicit(h, asize) == find_fit_loop_explicit(h, h.listp, asize, NULL, 0)

\* mm_malloc without its test for size = 0: the fault C9 detects.
mm_malloc_explicit_nozero(h, size) ==
    LET asize == IF size <= DSIZE THEN 2 * DSIZE ELSE ALIGN(size + DSIZE)
    IN Let(find_fit_explicit(h, asize), LAMBDA bp :
       IF bp # NULL
       THEN [h |-> place_explicit(h, bp, asize), r |-> bp]
       ELSE Let(extend_heap_explicit(h, MAX(asize, CHUNKSIZE) \div WSIZE),
                LAMBDA e :
            IF e.r = NULL THEN [h |-> e.h, r |-> NULL]
            ELSE [h |-> place_explicit(e.h, e.r, asize), r |-> e.r]))

\* mm_malloc that extends the heap by asize, not by MAX(asize, CHUNKSIZE):
\* the fault C27 detects.
mm_malloc_explicit_tight(h, size) ==
    IF size = 0 THEN [h |-> h, r |-> NULL]
    ELSE
    LET asize == IF size <= DSIZE THEN 2 * DSIZE ELSE ALIGN(size + DSIZE)
    IN Let(find_fit_explicit(h, asize), LAMBDA bp :
       IF bp # NULL
       THEN [h |-> place_explicit(h, bp, asize), r |-> bp]
       ELSE Let(extend_heap_explicit(h, asize \div WSIZE), LAMBDA e :
            IF e.r = NULL THEN [h |-> e.h, r |-> NULL]
            ELSE [h |-> place_explicit(e.h, e.r, asize), r |-> e.r]))

mm_malloc_explicit(h, size) ==
    IF size = 0 THEN [h |-> h, r |-> NULL]
    ELSE
    LET asize == IF size <= DSIZE THEN 2 * DSIZE ELSE ALIGN(size + DSIZE)
    IN Let(find_fit_explicit(h, asize), LAMBDA bp :
       IF bp # NULL
       THEN [h |-> place_explicit(h, bp, asize), r |-> bp]
       ELSE Let(extend_heap_explicit(h, MAX(asize, CHUNKSIZE) \div WSIZE),
                LAMBDA e :
            IF e.r = NULL THEN [h |-> e.h, r |-> NULL]
            ELSE [h |-> place_explicit(e.h, e.r, asize), r |-> e.r]))

\* mm_free that puts the block on the free list as it is, without
\* coalescing: the fault C15 detects.
mm_free_explicit_lazy(h, bp) ==
    LET size == GET_SIZE(h, HDRP(bp))
    IN Let(PUT(h, HDRP(bp), PACK(size, 0)), LAMBDA h1 :
       Let(PUT(h1, FTRP(h1, bp), PACK(size, 0)), LAMBDA h2 :
       add_free_block_explicit(h2, bp)))

mm_free_explicit(h, bp) ==
    LET size == GET_SIZE(h, HDRP(bp))
    IN Let(PUT(h, HDRP(bp), PACK(size, 0)), LAMBDA h1 :
       Let(PUT(h1, FTRP(h1, bp), PACK(size, 0)), LAMBDA h2 :
       coalesce_explicit(h2, bp).h))

\* No copy was made by the call.
NoCopy == [dst |-> NULL, src |-> NULL, len |-> 0]

\* The process stops on an access outside the arena.
Segv(h) == [h |-> [h EXCEPT !.fault = "segv"], r |-> NULL, cpy |-> NoCopy]

\* mm_realloc that widens the block in place but leaves the absorbed block
\* on the free list: the fault C6 detects.
mm_realloc_explicit_keeps_next(h, ptr, size) ==
    IF ~InArena(HDRP(ptr)) THEN Segv(h)
    ELSE
    LET oldptr     == ptr
        originsize == GET_SIZE(h, HDRP(oldptr))
        newsize    == size + DSIZE
        addSize    == originsize + GET_SIZE(h, HDRP(NEXT_BLKP(h, oldptr)))
    IN IF newsize <= originsize
       THEN [h |-> h, r |-> oldptr, cpy |-> NoCopy]
       ELSE IF GET_ALLOC(h, HDRP(NEXT_BLKP(h, oldptr))) = 0 /\ newsize <= addSize
       THEN Let(PUT(h, HDRP(oldptr), PACK(addSize, 1)), LAMBDA h2 :
            Let(PUT(h2, FTRP(h2, oldptr), PACK(addSize, 1)), LAMBDA h3 :
            [h |-> h3, r |-> oldptr, cpy |-> NoCopy]))
       ELSE Let(mm_malloc_explicit(h, newsize), LAMBDA m :
            IF m.r = NULL
            THEN [h |-> m.h, r |-> NULL, cpy |-> NoCopy]
            ELSE IF oldptr + newsize > mem_max_addr THEN Segv(m.h)
            ELSE Let(memcpy(m.h, m.r, oldptr, newsize), LAMBDA h1 :
                 [h   |-> mm_free_explicit(h1, oldptr),
                  r   |-> m.r,
                  cpy |-> [dst |-> m.r, src |-> oldptr, len |-> newsize]]))

mm_realloc_explicit(h, ptr, size) ==
    IF ~InArena(HDRP(ptr)) THEN Segv(h)
    ELSE
    LET oldptr     == ptr
        originsize == GET_SIZE(h, HDRP(oldptr))
        newsize    == size + DSIZE
        addSize    == originsize + GET_SIZE(h, HDRP(NEXT_BLKP(h, oldptr)))
    IN IF newsize <= originsize
       THEN [h |-> h, r |-> oldptr, cpy |-> NoCopy]
       ELSE IF GET_ALLOC(h, HDRP(NEXT_BLKP(h, oldptr))) = 0 /\ newsize <= addSize
       THEN Let(remove_free_block_explicit(h, NEXT_BLKP(h, oldptr)), LAMBDA h1 :
            Let(PUT(h1, HDRP(oldptr), PACK(addSize, 1)), LAMBDA h2 :
            Let(PUT(h2, FTRP(h2, oldptr), PACK(addSize, 1)), LAMBDA h3 :
            [h |-> h3, r |-> oldptr, cpy |-> NoCopy])))
       ELSE Let(mm_malloc_explicit(h, newsize), LAMBDA m :
            IF m.r = NULL
            THEN [h |-> m.h, r |-> NULL, cpy |-> NoCopy]
            ELSE IF oldptr + newsize > mem_max_addr THEN Segv(m.h)
            ELSE Let(memcpy(m.h, m.r, oldptr, newsize), LAMBDA h1 :
                 [h   |-> mm_free_explicit(h1, oldptr),
                  r   |-> m.r,
                  cpy |-> [dst |-> m.r, src |-> oldptr, len |-> newsize]]))

(*********************** mm-segregated-fit.c *******************************)
\* Address of GET_ROOT(index): the root word of a size class.
ROOT(h, index) == h.listp + (index * WSIZE)
GET_ROOT(h, index) == GET(h, ROOT(h, index))

\* The for loop of get_class, from index i on (class_sizes[i] = 16 << i).
RECURSIVE get_class_loop_segfit(_, _, _)
get_class_loop_segfit(size, i, class_size) ==
    IF i >= SEGREGATED_LIST_SIZE THEN SEGREGATED_LIST_SIZE - 1
    ELSE IF size <= class_size * 2 THEN i
    ELSE get_class_loop_segfit(size, i + 1, class_size * 2)

get_class_segfit(size) ==
    IF size < 16 THEN -1 ELSE get_class_loop_segfit(size, 1, 16)

remove_free_block_segfit(h, bp) ==
    Let(get_class_segfit(GET_SIZE(h, HDRP(bp))), LAMBDA class :
    IF bp = GET_ROOT(h, class)
    THEN PUT(h, ROOT(h, class), GET_SUCC(h, GET_ROOT(h, class)))
    ELSE Let(PUT(h, GET_PRED(h, bp) + WSIZE, GET_SUCC(h, bp)), LAMBDA h1 :
         IF GET_SUCC(h1, bp) # NULL
         THEN PUT(h1, GET_SUCC(h1, bp), GET_PRED(h1, bp))
         ELSE h1))

add_free_block_segfit(h, bp) ==
    Let(get_class_segfit(GET_SIZE(h, HDRP(bp))), LAMBDA class :
    Let(PUT(h, bp + WSIZE, GET_ROOT(h, class)), LAMBDA h1 :
    Let(IF GET_ROOT(h1, class) # NULL
        THEN PUT(h1, GET_ROOT(h1, class), bp) ELSE h1, LAMBDA h2 :
    PUT(h2, ROOT(h2, class), bp))))

\* coalesce that never merges: the fault C12 detects.
coalesce_segfit_apart(h, bp) ==
    [h |-> add_free_block_segfit(h, bp), r |-> bp]

coalesce_segfit(h, bp) ==
    LET prev_alloc == GET_ALLOC(h, FTRP(h, PREV_BLKP(h, bp)))
        next_alloc == GET_ALLOC(h, HDRP(NEXT_BLKP(h, bp)))
        size       == GET_SIZE(h, HDRP(bp))
    IN IF prev_alloc = 1 /\ next_alloc = 1
       THEN [h |-> add_free_block_segfit(h, bp), r |-> bp]
       ELSE IF prev_alloc = 1 /\ next_alloc = 0
       THEN Let(remove_free_block_segfit(h, NEXT_BLKP(h, bp)), LAMBDA h1 :
            Let(size + GET_SIZE(h1, HDRP(NEXT_BLKP(h1, bp))), LAMBDA s1 :
            Let(PUT(h1, HDRP(bp), PACK(s1, 0)), LAMBDA h2 :
            Let(PUT(h2, FTRP(h2, bp), PACK(s1, 0)), LAMBDA h3 :
            [h |-> add_free_block_segfit(h3, bp), r |-> bp]))))
       ELSE IF prev_alloc = 0 /\ next_alloc = 1
       THEN Let(remove_free_block_segfit(h, PREV_BLKP(h, bp)), LAMBDA h1 :
            Let(size + GET_SIZE(h1, HDRP(PREV_BLKP(h1, bp))), LAMBDA s1 :
            Let(PUT(h1, FTRP(h1, bp), PACK(s1, 0)), LAMBDA h2 :
            Let(PUT(h2, HDRP(PREV_BLKP(h2, bp)), PACK(s1, 0)), LAMBDA h3 :
            Let(PREV_BLKP(h3, bp), LAMBDA b1 :
            [h |-> add_free_block_segfit(h3, b1), r |-> b1])))))
       ELSE Let(remove_free_block_segfit(h, PREV_BLKP(h, bp)), LAMBDA h1 :
            Let(remove_free_block_segfit(h1, NEXT_BLKP(h1, bp)), LAMBDA h2 :
            Let(size + GET_SIZE(h2, HDRP(PREV_BLKP(h2, bp)))
                     + GET_SIZE(h2, FTRP(h2, NEXT_BLKP(h2, bp))), LAMBDA s1 :
            Let(PUT(h2, HDRP(PREV_BLKP(h2, bp)), PACK(s1, 0)), LAMBDA h3 :
            Let(PUT(h3, FTRP(h3, NEXT_BLKP(h3, bp)), PACK(s1, 0)), LAMBDA h4 :
            Let(PREV_BLKP(h4, bp), LAMBDA b1 :
            [h |-> add_free_block_segfit(h4, b1), r |-> b1]))))))

extend_heap_segfit(h, words) ==
    LET size == IF words % 2 = 1 THEN (words + 1) * WSIZE ELSE words * WSIZE
    IN Let(mem_sbrk(h, size), LAMBDA s :
       IF s.r = -1
       THEN [h |-> s.h, r |-> NULL]
       ELSE Let(PUT(s.h, HDRP(s.r), PACK(size, 0)), LAMBDA h1 :
            Let(PUT(h1, FTRP(h1, s.r), PACK(size, 0)), LAMBDA h2 :
            Let(PUT(h2, HDRP(NEXT_BLKP(h2, s.r)), PACK(0, 1)), LAMBDA h3 :
            coalesce_segfit(h3, s.r)))))

\* The loop of mm_init that clears the SEGREGATED_LIST_SIZE roots, from i on.
RECURSIVE init_roots(_, _, _)
init_roots(h, p, i) ==
    IF i >= SEGREGATED_LIST_SIZE THEN h
    ELSE init_roots(PUT(h, p + ((2 + i) * WSIZE), NULL), p, i + 1)

mm_init_segfit(h) ==
    Let(mem_sbrk(h, (SEGREGATED_LIST_SIZE + 4) * WSIZE), LAMBDA s :
    IF s.r = -1
    THEN [h |-> [h EXCEPT !.listp = -1], r |-> -1]
    ELSE Let(PUT(s.h, s.r, 0), LAMBDA h1 :
         Let(PUT(h1, s.r + (1 * WSIZE),
                 PACK((SEGREGATED_LIST_SIZE + 2) * WSIZE, 1)), LAMBDA h2 :
         Let(init_roots(h2, s.r, 0), LAMBDA h3 :
         Let(PUT(h3, s.r + ((SEGREGATED_LIST_SIZE + 2) * WSIZE),
                 PACK((SEGREGATED_LIST_SIZE + 2) * WSIZE, 1)), LAMBDA h4 :
         Let(PUT(h4, s.r + ((SEGREGATED_LIST_SIZE + 3) * WSIZE), PACK(0, 1)),
             LAMBDA h5 :
         Let([h5 EXCEPT !.listp = s.r + (2 * WSIZE)], LAMBDA h6 :
         Let(extend_heap_segfit(h6, (CHUNKSIZE + 2 * DSIZE) \div WSIZE),
             LAMBDA e :
         IF e.r = NULL THEN [h |-> e.h, r |-> -1]
         ELSE [h |-> e.h, r |-> 0]))))))))

\* place that splits but leaves the rest off the free lists: the fault C28
\* detects.
place_segfit_unlisted(h, bp, allocate_size) ==
    Let(remove_free_block_segfit(h, bp), LAMBDA h1 :
    Let(GET_SIZE(h1, HDRP(bp)), LAMBDA chunk_size :
    IF USubGe(chunk_size, allocate_size, 2 * DSIZE)
    THEN Let(PUT(h1, HDRP(bp), PACK(allocate_size, 1)), LAMBDA h2 :
         Let(PUT(h2, FTRP(h2, bp), PACK(allocate_size, 1)), LAMBDA h3 :
         Let(NEXT_BLKP(h3, bp), LAMBDA nb :
         Let(PUT(h3, HDRP(nb), PACK(chunk_size - allocate_size, 0)), LAMBDA h4 :
         PUT(h4, FTRP(h4, nb), PACK(chunk_size - allocate_size, 0))))))
    ELSE Let(PUT(h1, HDRP(bp), PACK(chunk_size, 1)), LAMBDA h2 :
         PUT(h2, FTRP(h2, bp), PACK(chunk_size, 1)))))

place_segfit(h, bp, allocate_size) ==
    Let(remove_free_block_segfit(h, bp), LAMBDA h1 :
    Let(GET_SIZE(h1, HDRP(bp)), LAMBDA chunk_size :
    IF USubGe(chunk_size, allocate_size, 2 * DSIZE)
    THEN Let(PUT(h1, HDRP(bp), PACK(allocate_size, 1)), LAMBDA h2 :
         Let(PUT(h2, FTRP(h2, bp), PACK(allocate_size, 1)), LAMBDA h3 :
         Let(NEXT_BLKP(h3, bp), LAMBDA nb :
         Let(PUT(h3, HDRP(nb), PACK(chunk_size - allocate_size, 0)), LAMBDA h4 :
         Let(PUT(h4, FTRP(h4, nb), PACK(chunk_size - allocate_size, 0)),
             LAMBDA h5 :
         add_free_block_segfit(h5, nb))))))
    ELSE Let(PUT(h1, HDRP(bp), PACK(chunk_size, 1)), LAMBDA h2 :
         PUT(h2, FTRP(h2, bp), PACK(chunk_size, 1)))))

\* The loops of find_fit (BEST_FIT): the list walk from bp on in class
\* `class`, then the classes above it.
RECURSIVE find_fit_loop_segfit(_, _, _, _, _, _)
find_fit_loop_segfit(h, class, bp, asize, best_bp, min_size) ==
    IF class >= SEGREGATED_LIST_SIZE THEN best_bp
    ELSE IF bp = NULL
    THEN IF class + 1 < SEGREGATED_LIST_SIZE
         THEN find_fit_loop_segfit(h, class + 1, GET_ROOT(h, class + 1),
                                   asize, best_bp, min_size)
         ELSE best_bp
    ELSE Let(GET_SIZE(h, HDRP(bp)), LAMBDA sz :
         IF asize <= sz /\ (min_size = 0 \/ sz < min_size)
         THEN find_fit_loop_segfit(h, class, GET_SUCC(h, bp), asize, bp, sz)
         ELSE find_fit_loop_segfit(h, class, GET_SUCC(h, bp), asize,
                                   best_bp, min_size))

find_fit_segfit(h, asize) ==
    Let(get_class_segfit(asize), LAMBDA class :
    find_fit_loop_segfit(h, class, GET_ROOT(h, class), asize, NULL, 0))

\* mm_malloc that adds a word to the rounded size of a large request: the
\* fault C20 detects.
mm_malloc_segfit_odd(h, size) ==
    IF size = 0 THEN [h |-> h, r |-> NULL]
    ELSE
    LET asize == IF size <= DSIZE THEN 2 * DSIZE
                 ELSE ALIGN(size + DSIZE) + WSIZE
    IN Let(find_fit_segfit(h, asize), LAMBDA bp :
       IF bp # NULL
       THEN [h |-> place_segfit(h, bp, asize), r |-> bp]
       ELSE Let(extend_heap_segfit(h, MAX(asize, CHUNKSIZE) \div WSIZE),
                LAMBDA e :
            IF e.r = NULL THEN [h |-> e.h, r |-> NULL]
            ELSE [h |-> place_segfit(e.h, e.r, asize), r |-> e.r]))

mm_malloc_segfit(h, size) ==
    IF size = 0 THEN [h |-> h, r |-> NULL]
    ELSE
    LET asize == IF size <= DSIZE THEN 2 * DSIZE ELSE ALIGN(size + DSIZE)
    IN Let(find_fit_segfit(h, asize), LAMBDA bp :
       IF bp # NULL
       THEN [h |-> place_segfit(h, bp, asize), r |-> bp]
       ELSE Let(extend_heap_segfit(h, MAX(asize, CHUNKSIZE) \div WSIZE),
                LAMBDA e :
            IF e.r = NULL THEN [h |-> e.h, r |-> NULL]
            ELSE [h |-> place_segfit(e.h, e.r, asize), r |-> e.r]))

mm_free_segfit(h, bp) ==
    LET size == GET_SIZE(h, HDRP(bp))
    IN Let(PUT(h, HDRP(bp), PACK(size, 0)), LAMBDA h1 :
       Let(PUT(h1, FTRP(h1, bp), PACK(size, 0)), LAMBDA h2 :
       coalesce_segfit(h2, bp).h))

\* mm_realloc that keeps the block only when the request is strictly
\* smaller than it (< for <=): the fault C5 detects.
mm_realloc_segfit_strict(h, ptr, size) ==
    IF ~InArena(HDRP(ptr)) THEN Segv(h)
    ELSE
    LET oldptr     == ptr
        originsize == GET_SIZE(h, HDRP(oldptr))
        newsize    == size + DSIZE
        addSize    == originsize + GET_SIZE(h, HDRP(NEXT_BLKP(h, oldptr)))
    IN IF size = 0 THEN [h |-> h, r |-> NULL, cpy |-> NoCopy]
       ELSE IF newsize < originsize
       THEN [h |-> h, r |-> oldptr, cpy |-> NoCopy]
       ELSE IF GET_ALLOC(h, HDRP(NEXT_BLKP(h, oldptr))) = 0 /\ newsize <= addSize
       THEN Let(remove_free_block_segfit(h, NEXT_BLKP(h, oldptr)), LAMBDA h1 :
            Let(PUT(h1, HDRP(oldptr), PACK(addSize, 1)), LAMBDA h2 :
            Let(PUT(h2, FTRP(h2, oldptr), PACK(addSize, 1)), LAMBDA h3 :
            [h |-> h3, r |-> oldptr, cpy |-> NoCopy])))
       ELSE Let(mm_malloc_segfit(h, newsize), LAMBDA m :
            IF m.r = NULL
            THEN [h |-> m.h, r |-> NULL, cpy |-> NoCopy]
            ELSE IF oldptr + newsize > mem_max_addr THEN Segv(m.h)
            ELSE Let(memcpy(m.h, m.r, oldptr, newsize), LAMBDA h1 :
                 [h   |-> mm_free_segfit(h1, oldptr),
                  r   |-> m.r,
                  cpy |-> [dst |-> m.r, src |-> oldptr, len |-> newsize]]))

\* mm_realloc that widens the block in place and leaves the footer
\* unwritten: the fault C18 detects.
mm_realloc_segfit_nofooter(h, ptr, size) ==
    IF ~InArena(HDRP(ptr)) THEN Segv(h)
    ELSE
    LET oldptr     == ptr
        originsize == GET_SIZE(h, HDRP(oldptr))
        newsize    == size + DSIZE
        addSize    == originsize + GET_SIZE(h, HDRP(NEXT_BLKP(h, oldptr)))
    IN IF size = 0 THEN [h |-> h, r |-> NULL, cpy |-> NoCopy]
       ELSE IF newsize <= originsize
       THEN [h |-> h, r |-> oldptr, cpy |-> NoCopy]
       ELSE IF GET_ALLOC(h, HDRP(NEXT_BLKP(h, oldptr))) = 0 /\ newsize <= addSize
       THEN Let(remove_free_block_segfit(h, NEXT_BLKP(h, oldptr)), LAMBDA h1 :
            Let(PUT(h1, HDRP(oldptr), PACK(addSize, 1)), LAMBDA h2 :
            [h |-> h2, r |-> oldptr, cpy |-> NoCopy]))
       ELSE Let(mm_malloc_segfit(h, newsize), LAMBDA m :
            IF m.r = NULL
            THEN [h |-> m.h, r |-> NULL, cpy |-> NoCopy]
            ELSE IF oldptr + newsize > mem_max_addr THEN Segv(m.h)
            ELSE Let(memcpy(m.h, m.r, oldptr, newsize), LAMBDA h1 :
                 [h   |-> mm_free_segfit(h1, oldptr),
                  r   |-> m.r,
                  cpy |-> [dst |-> m.r, src |-> oldptr, len |-> newsize]]))

mm_realloc_segfit(h, ptr, size) ==
    IF ~InArena(HDRP(ptr)) THEN Segv(h)
    ELSE
    LET oldptr     == ptr
        originsize == GET_SIZE(h, HDRP(oldptr))
        newsize    == size + DSIZE
        addSize    == originsize + GET_SIZE(h, HDRP(NEXT_BLKP(h, oldptr)))
    IN IF size = 0 THEN [h |-> h, r |-> NULL, cpy |-> NoCopy]
       ELSE IF newsize <= originsize
       THEN [h |-> h, r |-> oldptr, cpy |-> NoCopy]
       ELSE IF GET_ALLOC(h, HDRP(NEXT_BLKP(h, oldptr))) = 0 /\ newsize <= addSize
       THEN Let(remove_free_block_segfit(h, NEXT_BLKP(h, oldptr)), LAMBDA h1 :
            Let(PUT(h1, HDRP(oldptr), PACK(addSize, 1)), LAMBDA h2 :
            Let(PUT(h2, FTRP(h2, oldptr), PACK(addSize, 1)), LAMBDA h3 :
            [h |-> h3, r |-> oldptr, cpy |-> NoCopy])))
       ELSE Let(mm_malloc_segfit(h, newsize), LAMBDA m :
            IF m.r = NULL
            THEN [h |-> m.h, r |-> NULL, cpy |-> NoCopy]
            ELSE IF oldptr + newsize > mem_max_addr THEN Segv(m.h)
            ELSE Let(memcpy(m.h, m.r, oldptr, newsize), LAMBDA h1 :
                 [h   |-> mm_free_segfit(h1, oldptr),
                  r   |-> m.r,
                  cpy |-> [dst |-> m.r, src |-> oldptr, len |-> newsize]]))

(*********************** mm-segregated-buddy.c *****************************)
\* The buddy functions are written so that an address computed from heap
\* contents is checked before it is used: an access outside the arena stops
\* the process (fault "segv"), and a loop that runs out of LoopFuel steps
\* without ending is recorded as fault "hang".
Fault(h, what) == [h EXCEPT !.fault = what]

\* More iterations than any terminating run of a loop of the package takes
\* on an arena of MAX_HEAP bytes.
LoopFuel == 64

RECURSIVE BitAnd(_, _)
BitAnd(x, y) ==
    IF x = 0 \/ y = 0 THEN 0
    ELSE (x % 2) * (y % 2) + 2 * BitAnd(x \div 2, y \div 2)

\* The while loop of get_class.
RECURSIVE get_class_loop_buddy(_, _, _)
get_class_loop_buddy(size, next_power_of_2, class) ==
    IF next_power_of_2 < size /\ class + 1 < SEGREGATED_LIST_SIZE
    THEN get_class_loop_buddy(size, next_power_of_2 * 2, class + 1)
    ELSE class

get_class_buddy(size) == get_class_loop_buddy(size, 1, 0)

remove_free_block_buddy(h, bp) ==
    IF h.fault # "none" THEN h
    ELSE IF ~InArena(HDRP(bp)) \/ ~InArena(bp + WSIZE) THEN Fault(h, "segv")
    ELSE Let(get_class_buddy(GET_SIZE(h, HDRP(bp))), LAMBDA class :
         IF bp = GET_ROOT(h, class)
         THEN PUT(h, ROOT(h, class), GET_SUCC(h, GET_ROOT(h, class)))
         ELSE IF ~InArena(GET_PRED(h, bp) + WSIZE) THEN Fault(h, "segv")
         ELSE Let(PUT(h, GET_PRED(h, bp) + WSIZE, GET_SUCC(h, bp)), LAMBDA h1 :
              IF GET_SUCC(h1, bp) # NULL
              THEN IF ~InArena(GET_SUCC(h1, bp)) THEN Fault(h1, "segv")
                   ELSE PUT(h1, GET_SUCC(h1, bp), GET_PRED(h1, bp))
              ELSE h1))

add_free_block_buddy(h, bp) ==
    IF h.fault # "none" THEN h
    ELSE IF ~InArena(HDRP(bp)) \/ ~InArena(bp + WSIZE) THEN Fault(h, "segv")
    ELSE Let(get_class_buddy(GET_SIZE(h, HDRP(bp))), LAMBDA class :
         Let(PUT(h, bp + WSIZE, GET_ROOT(h, class)), LAMBDA h1 :
         IF GET_ROOT(h1, class) # NULL /\ ~InArena(GET_ROOT(h1, class))
         THEN Fault(h1, "segv")
         ELSE Let(IF GET_ROOT(h1, class) # NULL
                  THEN PUT(h1, GET_ROOT(h1, class), bp) ELSE h1, LAMBDA h2 :
              PUT(h2, ROOT(h2, class), bp))))

\* (bp - root) & csize is nonzero.  A negative difference d is the unsigned
\* number 2^32 + d, whose bits 30 and 31 are set.
IsRightBuddy(d, csize) ==
    IF d >= 0 THEN BitAnd(d, csize) # 0
    ELSE csize >= TwoTo30 \/ BitAnd(d + TwoTo30, csize % TwoTo30) # 0

\* The while (1) loop of coalesce.
RECURSIVE coalesce_loop_buddy(_, _, _, _)
coalesce_loop_buddy(h, bp, csize, fuel) ==
    IF h.fault # "none" THEN [h |-> h, r |-> bp]
    ELSE IF fuel = 0 THEN [h |-> Fault(h, "hang"), r |-> bp]
    ELSE
    Let(h.listp + (SEGREGATED_LIST_SIZE + 1) * WSIZE, LAMBDA root :
    Let(IsRightBuddy(bp - root, csize), LAMBDA isRight :
    Let(IF isRight THEN bp - csize ELSE bp, LAMBDA left_buddyp :
    Let(IF isRight THEN bp ELSE bp + csize, LAMBDA right_buddyp :
    IF ~InArena(HDRP(left_buddyp)) \/ ~InArena(HDRP(right_buddyp))
    THEN [h |-> Fault(h, "segv"), r |-> bp]
    ELSE IF GET_ALLOC(h, HDRP(left_buddyp)) = 0
            /\ GET_ALLOC(h, HDRP(right_buddyp)) = 0
            /\ GET_SIZE(h, HDRP(left_buddyp)) = GET_SIZE(h, HDRP(right_buddyp))
    THEN Let(remove_free_block_buddy(h, left_buddyp), LAMBDA h1 :
         Let(remove_free_block_buddy(h1, right_buddyp), LAMBDA h2 :
         Let(IF h2.fault # "none" THEN h2
             ELSE PUT(h2, HDRP(left_buddyp), PACK(csize * 2, 0)), LAMBDA h3 :
         Let(add_free_block_buddy(h3, left_buddyp), LAMBDA h4 :
         coalesce_loop_buddy(h4, left_buddyp, csize * 2, fuel - 1)))))
    ELSE [h |-> h, r |-> bp]))))

\* coalesce that never merges buddies: the fault C13 detects.
coalesce_buddy_apart(h, bp) ==
    [h |-> add_free_block_buddy(h, bp), r |-> bp]

coalesce_buddy(h, bp) ==
    Let(add_free_block_buddy(h, bp), LAMBDA h1 :
    IF h1.fault # "none" THEN [h |-> h1, r |-> bp]
    ELSE coalesce_loop_buddy(h1, bp, GET_SIZE(h1, HDRP(bp)), LoopFuel))

\* extend_heap that rounds the request up by two words more: the fault C21
\* detects.
extend_heap_buddy_wide(h, words) ==
    LET size == IF words % 2 = 1 THEN (words + 3) * WSIZE
                ELSE (words + 2) * WSIZE
    IN Let(mem_sbrk(h, size), LAMBDA s :
       IF s.r = -1
       THEN [h |-> s.h, r |-> NULL]
       ELSE Let(PUT(s.h, HDRP(s.r), PACK(size, 0)), LAMBDA h1 :
            Let(PUT(h1, HDRP(NEXT_BLKP(h1, s.r)), PACK(0, 1)), LAMBDA h2 :
            coalesce_buddy(h2, s.r))))

extend_heap_buddy(h, words) ==
    LET size == IF words % 2 = 1 THEN (words + 1) * WSIZE ELSE words * WSIZE
    IN Let(mem_sbrk(h, size), LAMBDA s :
       IF s.r = -1
       THEN [h |-> s.h, r |-> NULL]
       ELSE Let(PUT(s.h, HDRP(s.r), PACK(size, 0)), LAMBDA h1 :
            Let(PUT(h1, HDRP(NEXT_BLKP(h1, s.r)), PACK(0, 1)), LAMBDA h2 :
            coalesce_buddy(h2, s.r))))

mm_init_buddy(h) ==
    Let(mem_sbrk(h, (SEGREGATED_LIST_SIZE + 4) * WSIZE), LAMBDA s :
    IF s.r = -1
    THEN [h |-> [h EXCEPT !.listp = -1], r |-> -1]
    ELSE Let(PUT(s.h, s.r, 0), LAMBDA h1 :
         Let(PUT(h1, s.r + (1 * WSIZE),
                 PACK((SEGREGATED_LIST_SIZE + 2) * WSIZE, 1)), LAMBDA h2 :
         Let(init_roots(h2, s.r, 0), LAMBDA h3 :
         Let(PUT(h3, s.r + ((SEGREGATED_LIST_SIZE + 2) * WSIZE),
                 PACK((SEGREGATED_LIST_SIZE + 2) * WSIZE, 1)), LAMBDA h4 :
         Let(PUT(h4, s.r + ((SEGREGATED_LIST_SIZE + 3) * WSIZE), PACK(0, 1)),
             LAMBDA h5 :
         Let([h5 EXCEPT !.listp = s.r + (2 * WSIZE)], LAMBDA h6 :
         Let(extend_heap_buddy(h6, CHUNKSIZE \div WSIZE), LAMBDA e :
         IF e.r = NULL THEN [h |-> e.h, r |-> -1]
         ELSE [h |-> e.h, r |-> 0]))))))))

\* The while loop of place.
RECURSIVE place_loop_buddy(_, _, _, _, _)
place_loop_buddy(h, bp, allocate_size, chunk_size, fuel) ==
    IF h.fault # "none" THEN h
    ELSE IF allocate_size = chunk_size
    THEN IF ~InArena(HDRP(bp)) THEN Fault(h, "segv")
         ELSE PUT(h, HDRP(bp), PACK(chunk_size, 1))
    ELSE IF fuel = 0 THEN Fault(h, "hang")
    ELSE Let(chunk_size \div 2, LAMBDA half :
         IF ~InArena(HDRP(bp + half)) THEN Fault(h, "segv")
         ELSE Let(PUT(h, HDRP(bp + half), PACK(half, 0)), LAMBDA h1 :
              Let(add_free_block_buddy(h1, bp + half), LAMBDA h2 :
              place_loop_buddy(h2, bp, allocate_size, half, fuel - 1))))

\* place whose loop never runs: the block is taken as it is, whatever the
\* requested size.  The fault C30 detects.
place_buddy_whole(h, bp, allocate_size) ==
    Let(remove_free_block_buddy(h, bp), LAMBDA h1 :
    IF h1.fault # "none" THEN h1
    ELSE PUT(h1, HDRP(bp), PACK(GET_SIZE(h1, HDRP(bp)), 1)))

place_buddy(h, bp, allocate_size) ==
    Let(remove_free_block_buddy(h, bp), LAMBDA h1 :
    IF h1.fault # "none" THEN h1
    ELSE place_loop_buddy(h1, bp, allocate_size, GET_SIZE(h1, HDRP(bp)),
                          LoopFuel))

\* The pairs of halves that the loop of place makes of a free block of
\* chunk_size bytes at bp: [left |-> l, size |-> s] stands for the blocks of
\* s bytes at l and at l + s.
RECURSIVE place_halves_buddy(_, _, _)
place_halves_buddy(bp, allocate_size, chunk_size) ==
    IF chunk_size <= allocate_size THEN {}
    ELSE {[left |-> bp, size |-> chunk_size \div 2]}
         \cup place_halves_buddy(bp, allocate_size, chunk_size \div 2)

\* The loops of find_fit (first fit).  The result is a block pointer, NULL,
\* or FitSegv / FitHang when the walk leaves the arena or does not end.
FitSegv == -1
FitHang == -2

RECURSIVE find_fit_loop_buddy(_, _, _, _, _)
find_fit_loop_buddy(h, class, bp, asize, fuel) ==
    IF class >= SEGREGATED_LIST_SIZE THEN NULL
    ELSE IF bp = NULL
    THEN IF class + 1 < SEGREGATED_LIST_SIZE
         THEN find_fit_loop_buddy(h, class + 1, GET_ROOT(h, class + 1), asize, fuel)
         ELSE NULL
    ELSE IF ~InArena(HDRP(bp)) \/ ~InArena(bp + WSIZE) THEN FitSegv
    ELSE IF fuel = 0 THEN FitHang
    ELSE IF asize <= GET_SIZE(h, HDRP(bp)) THEN bp
    ELSE find_fit_loop_buddy(h, class, GET_SUCC(h, bp), asize, fuel - 1)

find_fit_buddy(h, asize) ==
    Let(get_class_buddy(asize), LAMBDA class :
    find_fit_loop_buddy(h, class, GET_ROOT(h, class), asize, LoopFuel))

\* The while loop of mm_malloc that doubles asize.
RECURSIVE asize_loop_buddy(_, _)
asize_loop_buddy(asize, size) ==
    IF asize < size + DSIZE THEN asize_loop_buddy(asize * 2, size) ELSE asize

\* The result carries, beside the heap and the pointer, `whole`: the size
\* of the free block that place was given (0 when place was not called).
mm_malloc_buddy(h, size) ==
    IF size = 0 THEN [h |-> h, r |-> NULL, whole |-> 0]
    ELSE
    Let(asize_loop_buddy(16, size), LAMBDA asize :
    Let(find_fit_buddy(h, asize), LAMBDA bp :
    IF bp = FitSegv THEN [h |-> Fault(h, "segv"), r |-> NULL, whole |-> 0]
    ELSE IF bp = FitHang THEN [h |-> Fault(h, "hang"), r |-> NULL, whole |-> 0]
    ELSE IF bp # NULL
    THEN [h |-> place_buddy(h, bp, asize), r |-> bp,
          whole |-> GET_SIZE(h, HDRP(bp))]
    ELSE Let(extend_heap_buddy(h, MAX(asize, CHUNKSIZE) \div WSIZE), LAMBDA e :
         IF e.r = NULL THEN [h |-> e.h, r |-> NULL, whole |-> 0]
         ELSE [h |-> place_buddy(e.h, e.r, asize), r |-> e.r,
               whole |-> IF e.h.fault = "none"
                         THEN GET_SIZE(e.h, HDRP(e.r)) ELSE 0])))

mm_free_buddy(h, bp) ==
    LET size == GET_SIZE(h, HDRP(bp))
    IN Let(PUT(h, HDRP(bp), PACK(size, 0)), LAMBDA h1 :
       coalesce_buddy(h1, bp).h)

mm_realloc_buddy(h, ptr, size) ==
    IF ptr = NULL
    THEN Let(mm_malloc_buddy(h, size), LAMBDA m :
         [h |-> m.h, r |-> m.r, cpy |-> NoCopy, whole |-> m.whole])
    ELSE IF size <= 0
    THEN [h |-> mm_free_buddy(h, ptr), r |-> NULL, cpy |-> NoCopy, whole |-> 0]
    ELSE Let(mm_malloc_buddy(h, size), LAMBDA m :
         IF m.r = NULL \/ m.h.fault # "none"
         THEN [h |-> m.h, r |-> NULL, cpy |-> NoCopy, whole |-> 0]
         ELSE LET sz       == GET_SIZE(m.h, HDRP(ptr))
                  \* sz - DSIZE is unsigned: it wraps when sz < DSIZE
                  copySize == IF sz < DSIZE \/ size < sz - DSIZE
                              THEN size ELSE sz - DSIZE
              IN Let(memcpy(m.h, m.r, ptr, copySize), LAMBDA h1 :
                 [h   |-> mm_free_buddy(h1, ptr),
                  r   |-> m.r,
                  cpy |-> [dst |-> m.r, src |-> ptr, len |-> copySize],
                  whole |-> m.whole]))

(*********************** the naive allocator (mm.c) ************************)
\* ALIGN(sizeof(size_t)): 8 whether size_t has 4 bytes or 8.  The model
\* stores the size in the first word of the 8, as a build with a 4-byte
\* size_t does.
SIZE_T_SIZE == ALIGN(WSIZE)

mm_init_naive(h) == [h |-> h, r |-> 0]

\* mm_malloc that asks the backend for ALIGN(size) bytes, without the room
\* for the size word: the fault C32 detects.
mm_malloc_naive_tight(h, size) ==
    Let(mem_sbrk(h, ALIGN(size)), LAMBDA s :
    IF s.r = -1 THEN [h |-> s.h, r |-> NULL]
    ELSE [h |-> PUT(s.h, s.r, size), r |-> s.r + SIZE_T_SIZE])

mm_malloc_naive(h, size) ==
    Let(mem_sbrk(h, ALIGN(size + SIZE_T_SIZE)), LAMBDA s :
    IF s.r = -1 THEN [h |-> s.h, r |-> NULL]
    ELSE [h |-> PUT(s.h, s.r, size), r |-> s.r + SIZE_T_SIZE])

mm_free_naive(h, ptr) == h

mm_realloc_naive(h, ptr, size) ==
    Let(mm_malloc_naive(h, size), LAMBDA m :
    IF m.r = NULL THEN [h |-> m.h, r |-> NULL, cpy |-> NoCopy]
    ELSE IF ~InArena(ptr - SIZE_T_SIZE) THEN Segv(m.h)
    ELSE LET stored   == GET(m.h, ptr - SIZE_T_SIZE)
             copySize == IF size < stored THEN size ELSE stored
         IN IF ptr + copySize > mem_max_addr THEN Segv(m.h)
            ELSE Let(memcpy(m.h, m.r, ptr, copySize), LAMBDA h1 :
                 [h   |-> mm_free_naive(h1, ptr),
                  r   |-> m.r,
                  cpy |-> [dst |-> m.r, src |-> ptr, len |-> copySize]]))

(*********************** the public operations *****************************)
mm_init(h) ==
    CASE variant = "explicit" -> mm_init_explicit(h)
      [] variant = "segfit"   -> mm_init_segfit(h)
      [] variant = "buddy"    -> mm_init_buddy(h)
      [] variant = "naive"    -> mm_init_naive(h)

mm_malloc(h, size) ==
    CASE variant = "explicit" -> mm_malloc_explicit(h, size)
      [] variant = "segfit"   -> mm_malloc_segfit(h, size)
      [] variant = "buddy"    -> mm_malloc_buddy(h, size)
      [] variant = "naive"    -> mm_malloc_naive(h, size)

mm_free(h, bp) ==
    CASE variant = "explicit" -> mm_free_explicit(h, bp)
      [] variant = "segfit"   -> mm_free_segfit(h, bp)
      [] variant = "buddy"    -> mm_free_buddy(h, bp)
      [] variant = "naive"    -> mm_free_naive(h, bp)

mm_realloc(h, ptr, size) ==
    CASE variant = "explicit" -> mm_realloc_explicit(h, ptr, size)
      [] variant = "segfit"   -> mm_realloc_segfit(h, ptr, size)
      [] variant = "buddy"    -> mm_realloc_buddy(h, ptr, size)
      [] variant = "naive"    -> mm_realloc_naive(h, ptr, size)

(*********************** the caller ****************************************)
\* live: the pointers the caller holds, each with the size it asked for.
NoLive == [p \in {} |-> 0]
Hold(lv, p, n) == [q \in (DOMAIN lv) \cup {p} |-> IF q = p THEN n ELSE lv[q]]
Drop(lv, p) == [q \in (DOMAIN lv) \ {p} |-> lv[q]]

\* The byte the caller stores at address a when it fills a buffer.
PatternByte(a) == (a % 127) + 1

\* The bytes of a buffer of n bytes at p that the caller fills: its first
\* word (or all of it, when shorter) and its last byte.
PatternBytes(p, n) ==
    {p + i : i \in 0 .. ((IF n < WSIZE THEN n ELSE WSIZE) - 1)} \cup {p + n - 1}

RECURSIVE StorePattern(_, _)
StorePattern(h, bytes) ==
    IF bytes = {} THEN h
    ELSE LET a == CHOOSE x \in bytes : TRUE
         IN StorePattern(StoreByte(h, a, PatternByte(a)), bytes \ {a})

WritePattern(h, p, n) == StorePattern(h, PatternBytes(p, n))

\* A three-word record the caller may store in a large buffer, at byte
\* offset RecordOffset: a length, a pointer to the buffer, and a null pointer.
RecordOffset == CHUNKSIZE - WSIZE
RecordBytes == 3 * WSIZE

WriteRecord(h, p) ==
    PUT(PUT(PUT(h, p + RecordOffset, CHUNKSIZE),
            p + RecordOffset + WSIZE, p),
        p + RecordOffset + 2 * WSIZE, NULL)

Called(op, ptr, size, ret, cpy) ==
    [op |-> op, ptr |-> ptr, size |-> size, ret |-> ret, cpy |-> cpy,
     pre |-> heap, prelive |-> live]

\* halves: the pairs of halves that the splits of place have made so far
\* (buddy variant).  Split(m, n): those of the call that returned m for a
\* request of n bytes.
Split(m, n) ==
    IF variant = "buddy" /\ m.r # NULL /\ m.h.fault = "none"
    THEN place_halves_buddy(m.r, asize_loop_buddy(16, n), m.whole)
    ELSE {}

\* issued: the pointers that mm_malloc has returned so far, each with the
\* size asked for (naive allocator).  Issue(m, n): that of the call that
\* returned m for a request of n bytes.
Issue(m, n) ==
    IF variant = "naive" /\ m.r # NULL /\ m.h.fault = "none"
    THEN {[ptr |-> m.r, size |-> n]}
    ELSE {}

Ready == phase = "ready" /\ heap.fault = "none"
MayCall == Ready /\ calls < budget

(*********************** the state machine *********************************)
Init ==
    /\ variant \in Variants
    /\ fill \in FillBytes
    /\ phase = "uninit"
    /\ heap = [mem |-> [a \in {} |-> 0], mem_brk |-> mem_heap,
               listp |-> NULL, fault |-> "none", refused |-> 0]
    /\ live = NoLive
    /\ calls = 0
    /\ budget = MaxCalls
    /\ halves = {}
    /\ issued = {}
    /\ last = [op |-> "none", ptr |-> NULL, size |-> 0, ret |-> NULL,
               cpy |-> NoCopy, pre |-> heap, prelive |-> NoLive]

MmInit ==
    /\ phase = "uninit"
    /\ \E i \in {mm_init(heap)} :
          /\ heap' = i.h
          /\ phase' = IF i.r = 0 THEN "ready" ELSE "failed"
          /\ last' = Called("init", NULL, 0, i.r, NoCopy)
    /\ UNCHANGED <<variant, fill, budget, live, calls, halves, issued>>

Malloc(n) ==
    /\ MayCall
    /\ Cardinality(DOMAIN live) < MaxLive
    /\ \E m \in {mm_malloc(heap, n)} :
          /\ heap' = m.h
          /\ live' = IF m.r # NULL /\ m.h.fault = "none"
                     THEN Hold(live, m.r, n) ELSE live
          /\ last' = Called("malloc", NULL, n, m.r, NoCopy)
          /\ halves' = halves \cup Split(m, n)
          /\ issued' = issued \cup Issue(m, n)
    /\ calls' = calls + 1
    /\ UNCHANGED <<variant, fill, budget, phase>>

Free(p) ==
    /\ MayCall
    /\ p \in DOMAIN live
    /\ heap' = mm_free(heap, p)
    /\ live' = Drop(live, p)
    /\ last' = Called("free", p, 0, NULL, NoCopy)
    /\ calls' = calls + 1
    /\ UNCHANGED <<variant, fill, budget, phase, halves, issued>>

Realloc(p, n) ==
    /\ MayCall
    /\ \/ p \in DOMAIN live
       \/ p = NULL /\ Cardinality(DOMAIN live) < MaxLive
    /\ \E m \in {mm_realloc(heap, p, n)} :
          /\ heap' = m.h
          /\ live' = IF m.h.fault # "none" THEN live
                     ELSE IF m.r # NULL THEN Hold(Drop(live, p), m.r, n)
                     ELSE IF n = 0 THEN Drop(live, p)
                     ELSE live
          /\ last' = Called("realloc", p, n, m.r, m.cpy)
          /\ halves' = halves \cup Split(m, n)
          /\ issued' = issued \cup Issue(m, n)
    /\ calls' = calls + 1
    /\ UNCHANGED <<variant, fill, budget, phase>>

UserWrite(p, kind) ==
    /\ Ready
    /\ p \in DOMAIN live
    /\ last.op = "malloc" /\ last.ret = p
    /\ live[p] > 0
    /\ \/ kind = "pattern" /\ heap' = WritePattern(heap, p, live[p])
       \/ /\ kind = "record"
          /\ live[p] >= RecordOffset + RecordBytes
          /\ heap' = WriteRecord(heap, p)
    /\ heap' # heap
    /\ last' = Called("write", p, live[p], p, NoCopy)
    /\ UNCHANGED <<variant, fill, budget, phase, live, calls, halves, issued>>

Next ==
    \/ MmInit
    \/ \E n \in Sizes : Malloc(n)
    \/ \E p \in DOMAIN live : Free(p)
    \/ \E p \in (DOMAIN live) \cup {NULL}, n \in Sizes : Realloc(p, n)
    \/ \E p \in DOMAIN live, kind \in {"pattern", "record"} : UserWrite(p, kind)

Spec == Init /\ [][Next]_vars

\* The buddy variant on memory filled with DeepFill bytes, with one call
\* more than in Spec.
DeepFill == CHOOSE b \in FillBytes : b # 0

InitDeep ==
    /\ variant = "buddy"
    /\ fill = DeepFill
    /\ phase = "uninit"
    /\ heap = [mem |-> [a \in {} |-> 0], mem_brk |-> mem_heap,
               listp |-> NULL, fault |-> "none", refused |-> 0]
    /\ live = NoLive
    /\ calls = 0
    /\ budget = MaxCalls + 1
    /\ halves = {}
    /\ issued = {}
    /\ last = [op |-> "none", ptr |-> NULL, size |-> 0, ret |-> NULL,
               cpy |-> NoCopy, pre |-> heap, prelive |-> NoLive]

SpecDeep == InitDeep /\ [][Next]_vars

\* The boundary-tag variants on zeroed memory, with one call more than in
\* Spec.
InitLong ==
    /\ variant \in Variants \ {"buddy"}
    /\ fill = 0
    /\ phase = "uninit"
    /\ heap = [mem |-> [a \in {} |-> 0], mem_brk |-> mem_heap,
               listp |-> NULL, fault |-> "none", refused |-> 0]
    /\ live = NoLive
    /\ calls = 0
    /\ budget = MaxCalls + 1
    /\ halves = {}
    /\ issued = {}
    /\ last = [op |-> "none", ptr |-> NULL, size |-> 0, ret |-> NULL,
               cpy |-> NoCopy, pre |-> heap, prelive |-> NoLive]

SpecLong == InitLong /\ [][Next]_vars

\* The naive allocator of mm.c.
InitNaive ==
    /\ variant = "naive"
    /\ fill \in FillBytes
    /\ phase = "uninit"
    /\ heap = [mem |-> [a \in {} |-> 0], mem_brk |-> mem_heap,
               listp |-> NULL, fault |-> "none", refused |-> 0]
    /\ live = NoLive
    /\ calls = 0
    /\ budget = MaxCalls
    /\ halves = {}
    /\ issued = {}
    /\ last = [op |-> "none", ptr |-> NULL, size |-> 0, ret |-> NULL,
               cpy |-> NoCopy, pre |-> heap, prelive |-> NoLive]

SpecNaive == InitNaive /\ [][Next]_vars

(*********************** observers of the heap *****************************)
\* The block pointer of the first block after the prologue.
FirstBlock ==
    IF variant = "explicit" THEN mem_heap + (4 * WSIZE)
    ELSE mem_heap + ((SEGREGATED_LIST_SIZE + 4) * WSIZE)

\* The bytes of a block that are not the caller's: header and footer in the
\* boundary-tag variants, the header alone in the buddy variant.
Overhead == IF variant = "buddy" THEN WSIZE ELSE DSIZE

\* The number of payload bytes of the block at bp.
Payload(h, bp) == GET_SIZE(h, HDRP(bp)) - Overhead

\* The blocks reached from bp by following successor links.
RECURSIVE ListFrom(_, _, _)
ListFrom(h, bp, fuel) ==
    IF bp = NULL \/ fuel = 0 \/ bp % WSIZE # 0
       \/ ~InArena(HDRP(bp)) \/ ~InArena(bp + WSIZE)
    THEN {}
    ELSE {bp} \cup ListFrom(h, GET_SUCC(h, bp), fuel - 1)

\* The blocks on the free list (explicit) or on any class list.
FreeListed(h) ==
    IF variant = "explicit" THEN ListFrom(h, h.listp, LoopFuel)
    ELSE UNION {ListFrom(h, GET_ROOT(h, c), LoopFuel) :
                   c \in 0 .. (SEGREGATED_LIST_SIZE - 1)}

\* The address p lies in the payload of a free block that is on a free list.
InFreeBlock(h, p) ==
    \E f \in FreeListed(h) :
        /\ GET_ALLOC(h, HDRP(f)) = 0
        /\ f <= p /\ p < f + Payload(h, f)

\* The blocks of the heap in address order, from bp to the epilogue.
RECURSIVE Walk(_, _, _)
Walk(h, bp, fuel) ==
    IF fuel = 0 \/ ~InArena(HDRP(bp)) \/ bp >= h.mem_brk
       \/ GET_SIZE(h, HDRP(bp)) = 0
    THEN {}
    ELSE {[bp |-> bp, size |-> GET_SIZE(h, HDRP(bp)),
           alloc |-> GET_ALLOC(h, HDRP(bp))]}
         \cup Walk(h, NEXT_BLKP(h, bp), fuel - 1)

Blocks(h) == Walk(h, FirstBlock, LoopFuel)

\* The words of two heaps agree on the addresses lo .. hi - 1.
SameWords(h1, h2, lo, hi) ==
    \A a \in (DOMAIN h1.mem) \cup (DOMAIN h2.mem) :
        (lo <= a /\ a < hi) => GET(h1, a) = GET(h2, a)

\* Two heaps are the same: break, list root and every word.
SameHeap(h1, h2) ==
    /\ h1.mem_brk = h2.mem_brk
    /\ h1.listp = h2.listp
    /\ SameWords(h1, h2, mem_heap, mem_max_addr)

\* The n bytes at dst in h1 equal the n bytes at src in h0.
SameBytes(h0, src, h1, dst, n) ==
    \A i \in {a - src + k : a \in DOMAIN h0.mem, k \in 0 .. (WSIZE - 1)}
             \cup {a - dst + k : a \in DOMAIN h1.mem, k \in 0 .. (WSIZE - 1)} :
        (0 <= i /\ i < n) => ByteAt(h1, dst + i) = ByteAt(h0, src + i)

Min(a, b) == IF a < b THEN a ELSE b

\* The last call was reallocate(p, n) on a live pointer p, and it returned.
ReallocLive ==
    /\ Ready
    /\ last.op = "realloc"
    /\ last.ptr \in DOMAIN last.prelive

\* have: the size of p's block before the call; need: align_up(n + 8, 8).
Have == GET_SIZE(last.pre, HDRP(last.ptr))
Need == ALIGN(last.size + DSIZE)

\* The last call was a reallocate that moved the block.
ReallocMoved ==
    /\ ReallocLive
    /\ last.ret # NULL
    /\ last.ret # last.ptr

(*********************** C1 ************************************************)
\* C1: in every variant, every live pointer obtained for n > 0 bytes
\* addresses an allocated block whose payload holds at least n bytes inside
\* the heap, and the payloads of two live allocations are disjoint.
C1_LiveHoldsAndDisjoint ==
    Ready =>
      /\ \A p \in DOMAIN live :
            live[p] > 0 =>
              /\ GET_ALLOC(heap, HDRP(p)) = 1
              /\ Payload(heap, p) >= live[p]
              /\ p + live[p] <= heap.mem_brk
      /\ \A p, q \in DOMAIN live :
            (live[p] > 0 /\ live[q] > 0 /\ p < q) => p + Payload(heap, p) <= q

(*********************** C2 ************************************************)
\* C2: when reallocate(p, n) returns r # p, the first min(old_payload, n)
\* bytes at r equal the bytes at p before the call, and p lies in a free
\* block that is on a free list.
C2_MovePreservesAndFrees ==
    ReallocMoved =>
      /\ SameBytes(last.pre, last.ptr, heap, last.ret,
                   Min(Have - DSIZE, last.size))
      /\ GET_ALLOC(heap, HDRP(last.ptr)) = 0
      /\ InFreeBlock(heap, last.ptr)

(*********************** C3 ************************************************)
\* C3: in every variant reallocate(none, n) returns what allocate(n) would
\* return and leaves the heap as allocate(n) would leave it, without
\* reading a block header (so without a fault).
C3_ReallocNullIsMalloc ==
    (phase = "ready" /\ last.op = "realloc" /\ last.ptr = NULL) =>
      /\ heap = mm_malloc(last.pre, last.size).h
      /\ last.ret = mm_malloc(last.pre, last.size).r

(*********************** C4 ************************************************)
\* C4: in every variant reallocate(p, 0) on a live pointer p returns none,
\* and afterwards p's flag is 0 and p lies in a block on a free list.
C4_ReallocZeroFrees ==
    (ReallocLive /\ last.size = 0) =>
      /\ last.ret = NULL
      /\ GET_ALLOC(heap, HDRP(last.ptr)) = 0
      /\ InFreeBlock(heap, last.ptr)

NextBefore == NEXT_BLKP(last.pre, last.ptr)
NextSize == GET_SIZE(last.pre, HDRP(NextBefore))

\* The last call was a reallocate in a boundary-tag variant with need > have
\* whose next block was free and large enough.
ReallocCanExpand ==
    /\ ReallocLive
    /\ variant # "buddy"
    /\ Need > Have
    /\ GET_ALLOC(last.pre, HDRP(NextBefore)) = 0
    /\ Have + NextSize >= Need

\* C6: in the boundary-tag variants such a reallocate returns p; p's block
\* is allocated with size exactly have + size(next) in header and footer,
\* the former next block is on no free list, no remainder is split off, and
\* every other block (and p's payload) is unchanged.
C6_ExpandInPlace ==
    ReallocCanExpand =>
      LET merged == [bp |-> last.ptr, size |-> Have + NextSize, alloc |-> 1]
          before == Blocks(last.pre)
      IN /\ last.ret = last.ptr
         /\ GET(heap, HDRP(last.ptr)) = PACK(Have + NextSize, 1)
         /\ GET(heap, FTRP(heap, last.ptr)) = PACK(Have + NextSize, 1)
         /\ FTRP(heap, last.ptr) = NextBefore + NextSize - DSIZE
         /\ NextBefore \notin FreeListed(heap)
         /\ FreeListed(heap) = FreeListed(last.pre) \ {NextBefore}
         /\ Blocks(heap) =
              (before \ {b \in before : b.bp \in {last.ptr, NextBefore}})
                 \cup {merged}
         /\ SameWords(last.pre, heap, last.ptr, last.ptr + Have - DSIZE)
         /\ \A b \in before :
               (b.alloc = 1 /\ b.bp # last.ptr) =>
                  SameWords(last.pre, heap, HDRP(b.bp), b.bp + b.size - WSIZE)
         /\ heap.mem_brk = last.pre.mem_brk

\* An expansion in place that leaves room for a remainder block, with
\* another allocated block in the heap.
C6_Witness ==
    /\ ReallocCanExpand
    /\ last.ret = last.ptr
    /\ Have + NextSize - Need >= 2 * DSIZE
    /\ GET_SIZE(heap, HDRP(last.ptr)) = Have + NextSize
    /\ Cardinality(DOMAIN live) >= 2

(*********************** C7 ************************************************)
\* C7: a reallocate that moves the block copies exactly min(have - 8, n)
\* bytes starting at p, so that it reads p's old payload only.
C7_CopyWithinPayload ==
    ReallocMoved =>
      /\ last.cpy.src = last.ptr
      /\ last.cpy.len = Min(Have - DSIZE, last.size)

(*********************** C8 ************************************************)
\* The backend refused to extend during the last allocate or reallocate.
Refused ==
    /\ phase = "ready"
    /\ last.op \in {"malloc", "realloc"}
    /\ heap.refused > last.pre.refused

\* C8: when the backend refuses, allocate and reallocate return none and
\* the heap is as before the call; for reallocate the old block is still
\* allocated and the caller still holds it.
C8_RefusalLeavesHeap ==
    Refused =>
      /\ last.ret = NULL
      /\ heap.fault = "none"
      /\ SameHeap(last.pre, heap)
      /\ live = last.prelive
      /\ (last.op = "realloc" /\ last.ptr # NULL
            /\ GET_ALLOC(last.pre, HDRP(last.ptr)) = 1) =>
            GET_ALLOC(heap, HDRP(last.ptr)) = 1

\* A refused reallocate of a block the caller had written.
C8_Witness ==
    /\ Refused
    /\ last.op = "realloc"
    /\ last.ptr \in DOMAIN live
    /\ ByteAt(heap, last.ptr) = PatternByte(last.ptr)

(*********************** C9 ************************************************)
\* C9: in every variant allocate(0) returns none and leaves the heap, the
\* free lists and the break as they were.
C9_MallocZero ==
    (phase = "ready" /\ last.op = "malloc" /\ last.size = 0) =>
      /\ last.ret = NULL
      /\ heap = last.pre
      /\ live = last.prelive

\* allocate(0) on a heap that holds an allocation.
C9_Witness ==
    /\ phase = "ready"
    /\ last.op = "malloc"
    /\ last.size = 0
    /\ DOMAIN live # {}

PayloadBase == HDRP(FirstBlock)

\* The state right after initialize followed by allocate(1), in a
\* boundary-tag variant.
AfterInitMalloc1 ==
    /\ Ready
    /\ variant # "buddy"
    /\ calls = 1
    /\ last.op = "malloc"
    /\ last.size = 1

\* The heap holds an allocated 16-byte block at the returned pointer, then
\* one free block of `rest` bytes, then the epilogue header, which is the
\* last word before the break.
SplitOf(rest) ==
    /\ last.ret = FirstBlock
    /\ GET(heap, HDRP(last.ret)) = PACK(2 * DSIZE, 1)
    /\ Blocks(heap) =
          {[bp |-> last.ret, size |-> 2 * DSIZE, alloc |-> 1],
           [bp |-> last.ret + 2 * DSIZE, size |-> rest, alloc |-> 0]}
    /\ GET(heap, HDRP(last.ret + 2 * DSIZE)) = PACK(rest, 0)
    /\ GET(heap, PayloadBase + 2 * DSIZE + rest) = PACK(0, 1)
    /\ PayloadBase + 2 * DSIZE + rest = heap.mem_brk - WSIZE

\* C11: in the boundary-tag variants, after initialize and allocate(1) the
\* returned block has header (16, 1), the only other block is free with
\* header (4080, 0), and the epilogue header is at offset 4096 from the
\* payload base.
C11_SplitOfChunk ==
    AfterInitMalloc1 => SplitOf(CHUNKSIZE - 2 * DSIZE)

\* C11 as the code has it: initialize leaves one free block of
\* CHUNKSIZE + 16 bytes, so the free block that remains after allocate(1)
\* has header (4096, 0) and the epilogue header is at offset 4112.
C11_SplitOfSeed ==
    AfterInitMalloc1 => SplitOf(CHUNKSIZE)

\* The first allocate(1) has returned, in the explicit variant and in the
\* segregated-fit variant.
C11_Witness ==
    /\ AfterInitMalloc1
    /\ last.ret = FirstBlock
    /\ GET_ALLOC(heap, HDRP(last.ret)) = 1

(*********************** C12 ***********************************************)
\* The free lists: one in the explicit variant, one for each size class in
\* the segregated variants.
NumLists == IF variant = "explicit" THEN 1 ELSE SEGREGATED_LIST_SIZE

\* The first block of list c.
ListHead(h, c) == IF variant = "explicit" THEN h.listp ELSE GET_ROOT(h, c)

\* The blocks of a list in list order, from bp on.
RECURSIVE ListSeq(_, _, _)
ListSeq(h, bp, fuel) ==
    IF bp = NULL \/ fuel = 0 \/ bp % WSIZE # 0
       \/ ~InArena(HDRP(bp)) \/ ~InArena(bp + WSIZE)
    THEN << >>
    ELSE <<bp>> \o ListSeq(h, GET_SUCC(h, bp), fuel - 1)

List(h, c) == ListSeq(h, ListHead(h, c), LoopFuel)

\* How many entries of the lists c, c + 1, ... are the block bp.
RECURSIVE ListedCount(_, _, _)
ListedCount(h, bp, c) ==
    IF c >= NumLists THEN 0
    ELSE Cardinality({i \in DOMAIN List(h, c) : List(h, c)[i] = bp})
         + ListedCount(h, bp, c + 1)

\* No block of the heap walk is allocated.
NoneAllocated == \A b \in Blocks(heap) : b.alloc = 0

\* C12: in the boundary-tag variants, whenever no block is allocated the
\* payload region is one free block from the first byte after the prologue
\* to the epilogue, and the free lists hold that block, once, and nothing
\* else.
C12_AllFreeIsOneBlock ==
    (Ready /\ variant # "buddy" /\ NoneAllocated) =>
      /\ Blocks(heap) =
            {[bp |-> FirstBlock,
              size |-> (heap.mem_brk - WSIZE) - PayloadBase,
              alloc |-> 0]}
      /\ GET(heap, heap.mem_brk - WSIZE) = PACK(0, 1)
      /\ FreeListed(heap) = {FirstBlock}
      /\ ListedCount(heap, FirstBlock, 0) = 1

\* The last of two allocations was freed while both its neighbours were
\* free.
C12_Witness ==
    /\ Ready /\ variant # "buddy" /\ NoneAllocated
    /\ last.op = "free"
    /\ calls = 4
    /\ Cardinality(FreeListed(last.pre)) = 2
    /\ GET_ALLOC(last.pre, HDRP(NEXT_BLKP(last.pre, last.ptr))) = 0
    /\ last.ptr # FirstBlock

(*********************** C13 ***********************************************)
\* The heap is the initial chunk: the break is where initialize left it.
NoExtension == heap.mem_brk = FirstBlock + CHUNKSIZE

\* C13: in the buddy variant, while the heap has not been extended, once
\* the caller has freed every block it was given the heap is one free block
\* of 4096 bytes, the only entry of its class list, and every other class
\* list is empty.
C13_BuddyMergesBack ==
    (Ready /\ variant = "buddy" /\ NoExtension /\ DOMAIN live = {}) =>
      /\ Blocks(heap) =
            {[bp |-> FirstBlock, size |-> CHUNKSIZE, alloc |-> 0]}
      /\ \A c \in 0 .. (SEGREGATED_LIST_SIZE - 1) :
            List(heap, c) = IF c = get_class_buddy(CHUNKSIZE)
                            THEN <<FirstBlock>> ELSE << >>

\* The second of two 16-byte blocks was freed after the first: the merges
\* run from 16 bytes up to the whole chunk.
C13_Witness ==
    /\ Ready /\ variant = "buddy" /\ NoExtension /\ DOMAIN live = {}
    /\ last.op = "free"
    /\ calls = 4
    /\ last.ptr = FirstBlock + 2 * DSIZE
    /\ GET_SIZE(last.pre, HDRP(last.ptr)) = 2 * DSIZE
    /\ Cardinality(FreeListed(last.pre)) = 8
    /\ GET_SIZE(heap, HDRP(FirstBlock)) = CHUNKSIZE

(*********************** C14 ***********************************************)
\* The block pointers of the heap walk.
BlockPtrs(h) == {b.bp : b \in Blocks(h)}

\* C14: after every operation, in every variant, a block is on some free
\* list exactly when its header flag is 0, whatever is on a free list is a
\* block, and every free block is on the lists exactly once.
C14_ListedIffFree ==
    Ready =>
      /\ FreeListed(heap) \subseteq BlockPtrs(heap)
      /\ \A b \in Blocks(heap) :
            /\ (b.bp \in FreeListed(heap)) <=> (b.alloc = 0)
            /\ b.alloc = 0 => ListedCount(heap, b.bp, 0) = 1

(*********************** C15 ***********************************************)
\* C15: in the boundary-tag variants, after every operation, the block
\* after a free block is allocated (or is the epilogue), and so is the block
\* before it (or it is the prologue): no two neighbours are both free.
C15_NoFreeNeighbours ==
    (Ready /\ variant # "buddy") =>
      \A b \in Blocks(heap) :
          b.alloc = 0 =>
            /\ GET_ALLOC(heap, HDRP(NEXT_BLKP(heap, b.bp))) = 1
            /\ GET_ALLOC(heap, FTRP(heap, PREV_BLKP(heap, b.bp))) = 1
            /\ \A c \in Blocks(heap) :
                  (c.bp + c.size = b.bp \/ b.bp + b.size = c.bp) => c.alloc = 1

\* A free that found the block after it free and left one block fewer.
C15_Witness ==
    /\ Ready /\ variant # "buddy"
    /\ last.op = "free"
    /\ GET_ALLOC(last.pre, HDRP(NEXT_BLKP(last.pre, last.ptr))) = 0
    /\ Cardinality(Blocks(heap)) < Cardinality(Blocks(last.pre))
    /\ \E b \in Blocks(heap) : b.alloc = 1

(*********************** C16 ***********************************************)
\* The heap walk has a free block of `size` bytes at bp.
FreeBlockAt(bp, size) ==
    [bp |-> bp, size |-> size, alloc |-> 0] \in Blocks(heap)

\* C16: in the buddy variant, after every operation, the two halves of a
\* split are never both free blocks of the size the split gave them.
C16_NoFreeBuddies ==
    (Ready /\ variant = "buddy") =>
      \A p \in halves :
          ~(FreeBlockAt(p.left, p.size) /\ FreeBlockAt(p.left + p.size, p.size))

(*********************** C17 ***********************************************)
\* The block that coalesce takes for the buddy of the block of `size` bytes
\* at bp.
BuddyOf(h, bp, size) ==
    IF IsRightBuddy(bp - (h.listp + (SEGREGATED_LIST_SIZE + 1) * WSIZE), size)
    THEN bp - size
    ELSE bp + size

\* C17: in the buddy variant every block starts at an offset from the
\* payload base that is a multiple of its size, and the buddy address that
\* coalesce computes for it is the start of a block or the epilogue.
C17_BlocksAligned ==
    (Ready /\ variant = "buddy") =>
      \A b \in Blocks(heap) :
          /\ (b.bp - FirstBlock) % b.size = 0
          /\ BuddyOf(heap, b.bp, b.size) \in BlockPtrs(heap) \cup {heap.mem_brk}

(*********************** C18 ***********************************************)
\* C18: in the boundary-tag variants, after every operation, the footer of
\* every block between the prologue and the epilogue is the same word as
\* its header.
C18_FooterIsHeader ==
    (Ready /\ variant # "buddy") =>
      \A b \in Blocks(heap) :
          GET(heap, FTRP(heap, b.bp)) = GET(heap, HDRP(b.bp))

\* A reallocate of the segregated-fit variant that widened the block in
\* place, in a heap of two blocks or more.
C18_Witness ==
    /\ ReallocLive /\ variant = "segfit"
    /\ last.ret = last.ptr
    /\ GET_SIZE(heap, HDRP(last.ptr)) > Have
    /\ GET(heap, FTRP(heap, last.ptr)) = PACK(GET_SIZE(heap, HDRP(last.ptr)), 1)
    /\ Cardinality(Blocks(heap)) >= 2

(*********************** C19 ***********************************************)
\* Where the walk from bp by NEXT_BLKP stops: at a header of size 0, at the
\* break, or outside the arena.
RECURSIVE WalkEnd(_, _, _)
WalkEnd(h, bp, fuel) ==
    IF fuel = 0 \/ ~InArena(HDRP(bp)) \/ bp >= h.mem_brk
       \/ GET_SIZE(h, HDRP(bp)) = 0
    THEN bp
    ELSE WalkEnd(h, NEXT_BLKP(h, bp), fuel - 1)

\* The sum of the sizes of the blocks of a set.
RECURSIVE SumSizes(_)
SumSizes(bs) ==
    IF bs = {} THEN 0
    ELSE LET b == CHOOSE x \in bs : TRUE IN b.size + SumSizes(bs \ {b})

\* C19: after every operation, in every variant, the walk from the first
\* block by NEXT_BLKP covers the payload region block after block and stops
\* at the epilogue header PACK(0, 1), which is the last word before the
\* break.
C19_WalkTiles ==
    Ready =>
      /\ WalkEnd(heap, FirstBlock, LoopFuel) = heap.mem_brk
      /\ GET(heap, HDRP(heap.mem_brk)) = PACK(0, 1)
      /\ SumSizes(Blocks(heap)) = (heap.mem_brk - WSIZE) - PayloadBase

IsPowerOfTwo(n) == n > 0 /\ BitAnd(n, n - 1) = 0

get_class(size) ==
    IF variant = "buddy" THEN get_class_buddy(size) ELSE get_class_segfit(size)

\* The blocks of list c, as a set.
Listed(h, c) == {List(h, c)[i] : i \in DOMAIN List(h, c)}

\* C22: in the segregated-fit and buddy variants, after every operation,
\* every free block of the heap is linked in the list of the class of the
\* size in its header, and every entry of a list has the class of that
\* list.
C22_ListedInItsClass ==
    (Ready /\ variant # "explicit") =>
      /\ \A b \in Blocks(heap) :
            b.alloc = 0 => b.bp \in Listed(heap, get_class(b.size))
      /\ \A c \in 0 .. (NumLists - 1) : \A bp \in Listed(heap, c) :
            get_class(GET_SIZE(heap, HDRP(bp))) = c

(*********************** C23 ***********************************************)
\* The smallest index i of 0 .. 19 with size <= 2^(i + 4), and 19 when
\* there is none.
SmallestClass(size) ==
    LET fits == {i \in 0 .. (SEGREGATED_LIST_SIZE - 1) : size <= 2 ^ (i + 4)}
    IN IF fits = {} THEN SEGREGATED_LIST_SIZE - 1
       ELSE CHOOSE i \in fits : \A j \in fits : i <= j

\* C23: in the segregated-fit variant, get_class of the size of every
\* block of the heap is the smallest index i of 0 .. 19 with
\* size <= 2^(i + 4), and 19 when there is none.
C23_ClassIsSmallest ==
    (Ready /\ variant = "segfit") =>
      \A b \in Blocks(heap) :
          b.size >= 16 => get_class_segfit(b.size) = SmallestClass(b.size)

(*********************** C24 ***********************************************)
\* C24: after every operation, in every variant, the first block of every
\* free list that is not empty has the predecessor link NULL.
C24_HeadHasNoPred ==
    Ready =>
      \A c \in 0 .. (NumLists - 1) :
          (ListHead(heap, c) # NULL /\ InArena(ListHead(heap, c)))
            => GET_PRED(heap, ListHead(heap, c)) = NULL

(*********************** C25 ***********************************************)
\* The successor links from the root of list c reach NULL, meet no block
\* twice, and meet only free blocks of the heap.
ListIsSound(h, c) ==
    Let(List(h, c), LAMBDA l :
        /\ IF l = << >> THEN ListHead(h, c) = NULL
           ELSE GET_SUCC(h, l[Len(l)]) = NULL
        /\ Cardinality({l[i] : i \in DOMAIN l}) = Len(l)
        /\ \A i \in DOMAIN l :
              l[i] \in BlockPtrs(h) /\ GET_ALLOC(h, HDRP(l[i])) = 0)

\* C25: after every operation, in every variant, the successor links from
\* every free-list root end at NULL without meeting a block twice, and
\* every block met is a free block of the payload region.
C25_ListsEnd ==
    Ready => \A c \in 0 .. (NumLists - 1) : ListIsSound(heap, c)

(*********************** C26 ***********************************************)
\* The adjusted size of a request in the boundary-tag variants.
AdjustedSize(size) ==
    IF size <= DSIZE THEN 2 * DSIZE ELSE ALIGN(size + DSIZE)

\* find_fit of the boundary-tag variants.
find_fit(h, asize) ==
    IF variant = "explicit" THEN find_fit_explicit(h, asize)
    ELSE find_fit_segfit(h, asize)

\* The lists c, c + 1, ... one after the other: the order in which find_fit
\* meets the free blocks.
RECURSIVE Traversal(_, _)
Traversal(h, c) ==
    IF c >= NumLists THEN << >> ELSE List(h, c) \o Traversal(h, c + 1)

\* The free blocks of the heap of asize bytes or more.
Candidates(h, asize) == {b \in Blocks(h) : b.alloc = 0 /\ b.size >= asize}

\* r is the best fit for asize: NULL when there is no candidate, and
\* otherwise a candidate of the least size, the first of that size that
\* find_fit meets.
IsBestFit(h, asize, r) ==
    Let(Candidates(h, asize), LAMBDA cands :
    IF cands = {} THEN r = NULL
    ELSE /\ r \in {b.bp : b \in cands}
         /\ \A b \in cands : GET_SIZE(h, HDRP(r)) <= b.size
         /\ Let(Traversal(h, IF variant = "explicit" THEN 0
                             ELSE get_class_segfit(asize)), LAMBDA t :
            \E i \in DOMAIN t :
                /\ t[i] = r
                /\ \A j \in 1 .. (i - 1) :
                      GET_SIZE(h, HDRP(t[j])) # GET_SIZE(h, HDRP(r))))

\* C26: in the explicit and segregated-fit variants, in every heap that the
\* operations leave, find_fit(asize) is NULL when no free block has asize
\* bytes, and otherwise a free block of the least size that is asize or
\* more, the first of that size in the order of the search.
C26_BestFit ==
    (Ready /\ variant # "buddy") =>
      \A n \in Sizes \ {0} :
          IsBestFit(heap, AdjustedSize(n), find_fit(heap, AdjustedSize(n)))

\* Two free blocks of the least size that fits 16 bytes are on the lists,
\* beside a larger free block, and find_fit returns the one it meets first.
C26_Witness ==
    /\ Ready /\ variant # "buddy"
    /\ LET t == Traversal(heap, IF variant = "explicit" THEN 0
                                ELSE get_class_segfit(2 * DSIZE))
           r == find_fit(heap, 2 * DSIZE)
       IN /\ r # NULL
          /\ \E i, j \in DOMAIN t :
                /\ i < j /\ t[i] = r
                /\ GET_SIZE(heap, HDRP(t[j])) = GET_SIZE(heap, HDRP(r))
          /\ \E b \in Candidates(heap, 2 * DSIZE) :
                b.size > GET_SIZE(heap, HDRP(r))

(*********************** C27 ***********************************************)
\* The adjusted size of a request of n bytes in the variant.
RequestSize(n) ==
    IF variant = "buddy" THEN asize_loop_buddy(16, n) ELSE AdjustedSize(n)

\* Some block on the free lists of h has asize bytes or more.
FitExists(h, asize) ==
    \E bp \in FreeListed(h) : GET_SIZE(h, HDRP(bp)) >= asize

place(h, bp, asize) ==
    IF variant = "explicit" THEN place_explicit(h, bp, asize)
    ELSE place_segfit(h, bp, asize)

\* h2 is h after place(bp, requested) on the free block bp of s bytes, as
\* the claim describes it.
Placed(h, h2, bp, requested, s) ==
    /\ bp \notin FreeListed(h2)
    /\ IF s - requested >= 2 * DSIZE
       THEN /\ GET(h2, HDRP(bp)) = PACK(requested, 1)
            /\ GET(h2, FTRP(h2, bp)) = PACK(requested, 1)
            /\ GET(h2, HDRP(bp + requested)) = PACK(s - requested, 0)
            /\ GET(h2, FTRP(h2, bp + requested)) = PACK(s - requested, 0)
            /\ FTRP(h2, bp + requested) = bp + s - DSIZE
            /\ FreeListed(h2) = (FreeListed(h) \ {bp}) \cup {bp + requested}
       ELSE /\ GET(h2, HDRP(bp)) = PACK(s, 1)
            /\ GET(h2, FTRP(h2, bp)) = PACK(s, 1)
            /\ FTRP(h2, bp) = bp + s - DSIZE
            /\ FreeListed(h2) = FreeListed(h) \ {bp}
    /\ h2.mem_brk = h.mem_brk
    /\ SumSizes(Blocks(h2)) = SumSizes(Blocks(h))

\* C28: in the boundary-tag variants, in every heap that the operations
\* leave, place(bp, requested) on a free block of s >= requested bytes
\* makes an allocated block of requested bytes and a listed free block of
\* s - requested bytes when s - requested >= 16, and one allocated block
\* of s bytes otherwise; bp leaves the free lists and the sizes still add
\* up to s.
C28_PlaceSplits ==
    (Ready /\ variant # "buddy") =>
      \A bp \in FreeListed(heap) : \A n \in Sizes \ {0} :
          LET s == GET_SIZE(heap, HDRP(bp))
              requested == AdjustedSize(n)
          IN s >= requested =>
               Placed(heap, place(heap, bp, requested), bp, requested, s)

\* The lists hold a block that place takes whole for 16 bytes and a block
\* that place splits, and the last allocate did split a block.
C28_Witness ==
    /\ Ready /\ variant # "buddy"
    /\ \E bp \in FreeListed(heap) : GET_SIZE(heap, HDRP(bp)) = 2 * DSIZE
    /\ \E bp \in FreeListed(heap) : GET_SIZE(heap, HDRP(bp)) >= 4 * DSIZE
    /\ last.op = "malloc" /\ last.ret # NULL
    /\ GET(heap, HDRP(last.ret)) = PACK(AdjustedSize(last.size), 1)
    /\ GET_ALLOC(heap, HDRP(NEXT_BLKP(heap, last.ret))) = 0
    /\ NEXT_BLKP(heap, last.ret) \in FreeListed(heap)

(*********************** C29 ***********************************************)
\* C29: when reallocate(p, n) moves the block, the new block has the size
\* of the block that allocate(n) returns in the heap the call found: the
\* adjusted size of a request of n bytes when the block was split off.
C29_MovedBlockIsMalloc ==
    ReallocMoved =>
      Let(mm_malloc(last.pre, last.size), LAMBDA m :
          /\ m.r = last.ret
          /\ GET_SIZE(heap, HDRP(last.ret)) = GET_SIZE(m.h, HDRP(m.r)))

(*********************** C30 ***********************************************)
\* The block that the coalesce of the last free (buddy variant) returned,
\* as [h |-> heap, r |-> block pointer].
LastCoalesce ==
    coalesce_buddy(PUT(last.pre, HDRP(last.ptr),
                       PACK(GET_SIZE(last.pre, HDRP(last.ptr)), 0)),
                   last.ptr)

\* How many times size doubles to reach whole.
RECURSIVE Doublings(_, _)
Doublings(size, whole) ==
    IF size <= 0 \/ size >= whole THEN 0 ELSE 1 + Doublings(2 * size, whole)

Others == {p \in DOMAIN last.prelive : p # last.ptr}

\* C31: in every variant, an allocate, free or reallocate leaves every
\* other live allocation as it was: still live at its address, with the
\* same header word and the same payload words.
C31_OthersUntouched ==
    (Ready /\ last.op \in {"malloc", "free", "realloc"}) =>
      \A p \in Others :
          /\ p \in DOMAIN live /\ live[p] = last.prelive[p]
          /\ GET(heap, HDRP(p)) = GET(last.pre, HDRP(p))
          /\ SameWords(last.pre, heap, p, p + Payload(last.pre, p))

(*********************** C32 ***********************************************)
\* The bytes a .. a + n - 1 and b .. b + m - 1 have none in common.
Apart(a, n, b, m) == a + n <= b \/ b + m <= a

\* C32: in the naive allocator, every mm_malloc that succeeds returns a
\* multiple of 8 that addresses bytes which the call itself obtained from
\* the backend; mm_free changes nothing; and no two pointers that mm_malloc
\* has ever returned, freed or not, address bytes in common.
C32_NaiveNeverReuses ==
    (Ready /\ variant = "naive") =>
      /\ (last.op = "malloc" /\ last.ret # NULL) =>
            /\ last.ret % ALIGNMENT = 0
            /\ last.pre.mem_brk <= last.ret
            /\ last.ret + last.size <= heap.mem_brk
            /\ [ptr |-> last.ret, size |-> last.size] \in issued
      /\ last.op = "free" =>
            SameHeap(last.pre, heap) /\ last.ptr \in {a.ptr : a \in issued}
      /\ \A a \in issued : a.ptr + a.size <= heap.mem_brk
      /\ \A a, b \in issued :
            a # b => a.ptr # b.ptr /\ Apart(a.ptr, a.size, b.ptr, b.size)

\* A pointer was freed and mm_malloc has returned another one since, for
\* bytes beyond those of the freed one.
C32_Witness ==
    /\ Ready /\ variant = "naive"
    /\ last.op = "malloc" /\ last.ret # NULL /\ last.size > 0
    /\ \E a \in issued :
          /\ a.ptr \notin DOMAIN live
          /\ a.size > 0
          /\ a.ptr + a.size <= last.ret

(*********************** C33 ***********************************************)
\* The list a free block of size bytes belongs to.
ListOf(size) == IF variant = "explicit" THEN 0 ELSE get_class(size)

\* p is an address whose predecessor and successor links can be read.
Linkable(p) ==
    p # NULL /\ p % WSIZE = 0 /\ InArena(p) /\ InArena(p + WSIZE)

\* The links of the block bp agree in the heap h: unless bp is the first
\* block of list c, the successor of its predecessor is bp, and when bp has
\* a successor, the predecessor of that successor is bp.
LinksAgree(h, bp, c) ==
    /\ bp # ListHead(h, c) =>
          Let(GET_PRED(h, bp), LAMBDA p :
              Linkable(p) /\ GET_SUCC(h, p) = bp)
    /\ Let(GET_SUCC(h, bp), LAMBDA s :
          s # NULL => (Linkable(s) /\ GET_PRED(h, s) = bp))

\* C33: after every operation, in every variant, every free block that is
\* not the first of its list is the successor of its predecessor, and
\* every free block with a successor is the predecessor of that successor;
\* this holds for the free blocks of the heap and for the entries of the
\* lists.
C33_LinksAgree ==
    Ready =>
      /\ \A b \in Blocks(heap) :
            b.alloc = 0 => LinksAgree(heap, b.bp, ListOf(b.size))
      /\ \A c \in 0 .. (NumLists - 1) : \A bp \in Listed(heap, c) :
            LinksAgree(heap, bp, c)

====
